---- MODULE Spec2Model ----
(***************************************************************************)
(* Tool-calling agent runtime of biodoia/golem.                            *)
(*                                                                         *)
(*   SpecLoop   : the three tool loops, Coordinator.RunWithTools           *)
(*                (internal/agents/agents.go), ZAIProvider.ChatWithTools   *)
(*                (internal/providers) and cli.RunOneShotTools, and        *)
(*                EnhancedZAIProvider.executeToolCall.                     *)
(*   SpecMgr    : mcp.Manager (Start / Stop / Call) with its RWMutex, the  *)
(*                per-process mutex and the child process pipes.           *)
(*   SpecStream : zhipu.Client.ChatStreamWithTools, both variants of the   *)
(*                tool-call assembly.                                      *)
(*   SpecText   : zhipu.Client.ChatStream and the two variants above on a  *)
(*                text response with malformed frames and the terminator.  *)
(*   SpecCancel : SpecLoop with cancellation of the caller's context.      *)
(*   SpecReg    : tools.ToolRegistry and the provider's tool map.          *)
(*   SpecChan   : the decoder goroutine and its channels under             *)
(*                CollectStream, ZAIProvider.ChatStream and                *)
(*                EnhancedZAIProvider.chatStreamInternal.                  *)
(*   SpecShell  : AgentExecute and AgentExecuteBackground.                 *)
(*   SpecSess   : session.SessionManager under the UI's addMessage.        *)
(*   SpecMgrLive, SpecCallLive, SpecOpsLive, SpecChanLive : the same       *)
(*                components with the fairness of their goroutines.        *)
(*                                                                         *)
(* The specifications share one variable tuple; each one leaves the        *)
(* variables of the other components at their initial value.               *)
(***************************************************************************)
EXTENDS Integers, Sequences, FiniteSets, TLC

VARIABLES
    \* ---- tool loops ----
    fn,             \* which loop function is running
    pc,             \* "request" | "exec" | "done"
    registry,       \* names that have a handler (ToolRegistry.handlers / toolHandlers)
    messages,       \* the local slice `messages`
    pending,        \* tool calls of the current response not yet executed
    i,              \* RunWithTools: loop counter i
    toolCallCount,  \* RunOneShotTools: toolCallCount
    history,        \* ZAIProvider.history
    result,         \* what the function returned, [kind, val]
    req,            \* ChatRequest.Messages of the most recent model request
    nreq,           \* number of model requests sent (client.Chat calls)
    handlerRuns,    \* number of handler invocations
    onlyTools,      \* every response so far carried at least one tool call
    lastStep,       \* what the last step of the loop did
    vary,           \* number of non-plain choices the model / handlers made
    events,         \* StreamEvents passed to the StreamHandler, in order
    ctxDone,        \* the caller's context has been cancelled
    \* ---- mcp.Manager ----
    servers,        \* Manager.servers: name -> process object (0: no entry)
    procs,          \* the Process objects created so far
    nprocs,         \* number of Process objects created
    mmu,            \* Manager.mu: the goroutine holding the write lock (0: free)
    tpc,            \* per goroutine: where it is in its Manager operation
    targ,           \* per goroutine: the name argument of its operation
    tproc,          \* per goroutine: the local variable proc
    tret,           \* per goroutine: what its last operation returned
    tctx,           \* per goroutine: the context made by CallWithTimeout:
                    \* "none" | "armed" | "expired"
    \* ---- zhipu.Client.ChatStream / ChatStreamWithTools ----
    variant,        \* "builder": keyed by stream index; "fixed": idx := 0;
                    \* "text": Client.ChatStream
    calls,          \* the tool calls of the response being streamed
    sprog,          \* per call: what the server has sent of it so far
    sphase,         \* the server's position in the response stream
    nText,          \* text fragments sent so far
    spc,            \* the decoder goroutine: "reading" | "closed"
    toolCallBuilders, \* toolCallBuilders / toolCallBuffer
    textCh,         \* everything sent on textCh, in order
    toolCh,         \* everything sent on toolCh, in order
    errCh,          \* everything sent on errCh, in order
    wire,           \* the text and malformed frames the server sent before the
                    \* terminator, in order
    \* ---- ToolRegistry / EnhancedZAIProvider tool registration ----
    rkind,          \* which registry: "ToolRegistry" | "EnhancedZAIProvider"
    tools,          \* ToolRegistry.tools: the declarations, in order
    handlers,       \* ToolRegistry.handlers: name -> handler (0: no entry)
    toolRegistry,   \* EnhancedZAIProvider.toolRegistry: name -> Tool
    nregs,          \* registrations made so far
    lastReg,        \* per name: the most recent registration under it (0: none)
    declared,       \* the declarations last presented to the model
    executed,       \* the outcome of the last execution by name
    \* ---- the decoder goroutine, its channels and their consumer ----
    producer,       \* "ChatStream" | "builder" | "fixed": which decoder runs
    gpc,            \* the decoder goroutine's position
    script,         \* what the rest of the response body makes the decoder send
    ending,         \* how the body ends: "done" | "eof" | "readerr"
    offer,          \* the value the goroutine is blocked sending, if any
    chans,          \* per channel: its buffer and whether it is closed
    cancelled,      \* the context given to the decoder has been cancelled
    sent,           \* per channel: everything sent on it, in order
    cpc,            \* the consumer: "select" | "returned"
    cnil,           \* CollectStream: the channel variables it has set to nil
    contentBuilder, \* the text the consumer has accumulated
    resToolCalls,   \* CollectStream: result.ToolCalls
    resError,       \* CollectStream: result.Error
    cret,           \* ZAIProvider.ChatStream / chatStreamInternal: the error returned
    caller,         \* the consumer: "ChatStream" (ZAIProvider) | "chatStreamInternal"
                    \* | "CollectStream"
    skipped,        \* the frames the decoder read and passed over, in order
    stored,         \* the provider's history (p.history)
    delivered,      \* the events given to the callback / StreamHandler, in order
    \* ---- the shell tools: execute and execute_background ----
    agentBackgroundProcesses, \* process id -> Status of the tracked process
                    \* ("absent": no entry)
    agentBgCounter, \* agentBgCounter
    cmdRunning,     \* the ids whose `sh -c` command is running in the system
    bgTimeout,      \* the last background start: timeout_seconds given and the
                    \* timeout of its context
    lastExec,       \* AgentExecute: timeout_seconds given and the timeout used
    lastKill,       \* the last 'kill' action: its process_id and its error
    \* ---- the session manager and the UI's addMessage ----
    now,            \* the clock, in whole seconds
    sessions,       \* sm.sessions: ID -> the Session object stored (0: no entry)
    nsessions,      \* Session objects made so far; object o has ID sessionID[o]
    sessionID,      \* the ID field of each Session object
    sessMessages,   \* len(session.Messages) of each Session object
    current,        \* sm.current, which is also the UI's m.currentSession (0: nil)
    autoSaveN,      \* sm.autoSaveN
    messageCount,   \* sm.messageCount
    addedSinceSave  \* messages added by AddMessage since the last call of Save

loopVars == <<fn, pc, registry, messages, pending, i, toolCallCount, history,
              result, req, nreq, handlerRuns, onlyTools, lastStep, vary, events, ctxDone>>

mgrVars == <<servers, procs, nprocs, mmu, tpc, targ, tproc, tret, tctx>>

streamVars == <<variant, calls, sprog, sphase, nText, spc, toolCallBuilders,
                textCh, toolCh, errCh, wire>>

regVars == <<rkind, tools, handlers, toolRegistry, nregs, lastReg, declared, executed>>

chanVars == <<producer, gpc, script, ending, offer, chans, cancelled, sent,
              cpc, cnil, contentBuilder, resToolCalls, resError, cret,
              caller, skipped, stored, delivered>>

shellVars == <<agentBackgroundProcesses, agentBgCounter, cmdRunning, bgTimeout,
               lastExec, lastKill>>

sessVars == <<now, sessions, nsessions, sessionID, sessMessages, current, autoSaveN,
              messageCount, addedSinceSave>>

vars == <<loopVars, mgrVars, streamVars, regVars, chanVars, shellVars, sessVars>>

\* what the steps of one component leave alone
notLoop == <<mgrVars, streamVars, regVars, chanVars, shellVars, sessVars>>
notMgr == <<loopVars, streamVars, regVars, chanVars, shellVars, sessVars>>
notStream == <<loopVars, mgrVars, regVars, chanVars, shellVars, sessVars>>
notReg == <<loopVars, mgrVars, streamVars, chanVars, shellVars, sessVars>>
notChan == <<loopVars, mgrVars, streamVars, regVars, shellVars, sessVars>>
notShell == <<loopVars, mgrVars, streamVars, regVars, chanVars, sessVars>>
notSess == <<loopVars, mgrVars, streamVars, regVars, chanVars, shellVars>>

-----------------------------------------------------------------------------
(* Bounds *)

MaxCalls == 2        \* tool calls in one model response
MaxVary == 2         \* non-plain choices of the model and the handlers per task
MaxRounds == 3       \* model requests of the unbounded ChatWithTools loop
NumThreads == 2      \* goroutines calling into one Manager
MaxProcs == 2        \* child processes launched by one Manager
MaxStreamCalls == 2  \* tool calls in one streamed response
MaxChunks == 2       \* argument chunks of one streamed tool call
MaxText == 1         \* text fragments in one streamed response
MaxDeltas == 2       \* content frames of a streamed text response
MaxBad == 1          \* malformed frames in a streamed text response
MaxRegs == 3         \* registrations made on one registry
MaxItems == 2        \* values one response makes the decoder send
MaxBg == 2           \* background processes started
MaxTime == 1         \* seconds the clock advances
MaxSessions == 3     \* Session objects made
MaxAdds == 4         \* messages held by all sessions together
MaxN == 2            \* largest value given to SetAutoSaveN

-----------------------------------------------------------------------------
(* Program constants *)

maxIterations == 10
maxToolCalls == 5
textChCap == 100     \* make(chan string, 100)
toolChCap == 10      \* make(chan ToolCall, 10)
errChCap == 1        \* make(chan error, 1)
DefaultAutoSaveN == 5
execDefault == 30    \* AgentExecute: timeout = 30
execMax == 300       \* AgentExecute: timeout = 300
bgDefault == 600     \* agentStartBackgroundProcess: timeout = 600
bgMax == 3600        \* agentStartBackgroundProcess: timeout = 3600

-----------------------------------------------------------------------------
(* Messages and tool calls (zhipu.Message, zhipu.ToolCall) *)

Names == {"t1", "nope"}
ArgTexts == {"{}", "{bad"}

\* ids are unique within a response: the j-th call of a response has id IdAt(j)
IdAt(j) == <<"c1", "c2", "c3", "c4">>[j]
Ids == {IdAt(j) : j \in 1..4}

ToolCall == [id : Ids, name : Names, args : ArgTexts]

\* the plain tool call: a registered name with well-formed arguments
IsPlain(tc) == tc.name = "t1" /\ tc.args = "{}"

Message(role, content, tcid, tcs) ==
    [role |-> role, content |-> content, tool_call_id |-> tcid, tool_calls |-> tcs]

UserMsg(c) == Message("user", c, "", <<>>)
SystemMsg(c) == Message("system", c, "", <<>>)
AssistantMsg(c, tcs) == Message("assistant", c, "", tcs)
ToolMsg(id, c) == Message("tool", c, id, <<>>)

\* json.Unmarshal([]byte(args), &map): succeeds on a JSON object text
JsonOk(s) == s = "{}"

\* content, _ := choice.Message.Content.(string): a non-string content gives ""
ContentString(c) == IF c = "null" THEN "" ELSE c

Ok(v) == [kind |-> "ok", val |-> v]
Err(e) == [kind |-> "err", val |-> e]
None == [kind |-> "none", val |-> ""]

\* fmt.Sprintf("Error: %v", err)
ErrorText(e) == "Error: " \o e

ResultText_Unconverted(res) == res.val

\* result, err := Execute(...); if err != nil { result = "Error: ..." }
ResultText(res) == IF res.kind = "err" THEN ErrorText(res.val) ELSE res.val

AppendToolMsg_Reversed(msgs, tc, text) ==
    IF msgs[Len(msgs)].role = "tool"
      THEN SubSeq(msgs, 1, Len(msgs) - 1) \o <<ToolMsg(tc.id, text), msgs[Len(msgs)]>>
      ELSE Append(msgs, ToolMsg(tc.id, text))

\* messages = append(messages, Message{Role: "tool", ToolCallID: tc.ID, Content: result})
AppendToolMsg(msgs, tc, text) == Append(msgs, ToolMsg(tc.id, text))

AppendResponse_Trimmed(msgs, r) == Append(Tail(msgs), AssistantMsg(r.content, r.tool_calls))

\* messages = append(messages, choice.Message)
AppendResponse(msgs, r) == Append(msgs, AssistantMsg(r.content, r.tool_calls))

FinalContent_Empty(r) == ""

\* the text returned for a response without tool calls
FinalContent(r) == ContentString(r.content)

LoopCond_OffByOne(n) == n <= maxIterations

\* for i := 0; i < maxIterations; i++
LoopCond(n) == n < maxIterations

ExceedsLimit_Late(n) == n > maxToolCalls + 1

\* if toolCallCount > maxToolCalls { return error }
ExceedsLimit(n) == n > maxToolCalls

Step(op, kind, content, tcs, err) ==
    [op |-> op, kind |-> kind, content |-> content, tool_calls |-> tcs, err |-> err]

-----------------------------------------------------------------------------
(* The model endpoint: what one client.Chat call can return *)

CallSeqs ==
    UNION {{tcs \in [1..n -> ToolCall] : \A j \in 1..n : tcs[j].id = IdAt(j)} :
             n \in 1..MaxCalls}

RECURSIVE SeqCost(_)
SeqCost(tcs) ==
    IF tcs = <<>> THEN 0
    ELSE (IF IsPlain(Head(tcs)) THEN 0 ELSE 1) + SeqCost(Tail(tcs))

\* number of non-plain choices in a response with tool calls
Cost(content, tcs) == (Len(tcs) - 1) + SeqCost(tcs) + (IF content = "null" THEN 0 ELSE 1)

\* a response is a failed request, a response without choices, or one message;
\* the request is made with http.NewRequestWithContext(ctx, ...), so under a
\* cancelled context it fails
Responses ==
    IF ctxDone THEN {[kind |-> "fail", content |-> "null", tool_calls |-> <<>>]}
    ELSE
    {[kind |-> "fail", content |-> "null", tool_calls |-> <<>>],
     [kind |-> "nochoice", content |-> "null", tool_calls |-> <<>>]}
    \cup [kind : {"msg"}, content : {"null", "text"}, tool_calls : {<<>>}]
    \cup {r \in [kind : {"msg"}, content : {"null", "text"}, tool_calls : CallSeqs] :
            vary + Cost(r.content, r.tool_calls) <= MaxVary}

RespCost(r) == IF r.tool_calls = <<>> THEN 0 ELSE Cost(r.content, r.tool_calls)

\* outcome of one handler invocation: (string, error)
HandlerOutcomes == {Ok("out")} \cup (IF vary < MaxVary THEN {Err("boom")} ELSE {})

OutcomeCost(o) == IF o.kind = "err" THEN 1 ELSE 0

ChatFailed_Retry(e) ==
    /\ result' = result
    /\ pc' = "request"

\* resp, err := client.Chat(...); if err != nil { return nil, err }
ChatFailed(e) ==
    /\ result' = Err(e)
    /\ pc' = "done"

-----------------------------------------------------------------------------
(* Coordinator.RunWithTools *)

\* ToolRegistry.Execute: unknown name gives an error, else the handler's outcome
RegistryExecute(name, o) ==
    IF name \notin registry THEN Err("unknown tool") ELSE o

\* one model request of the loop body, agents.go 365-394
RWT_Chat ==
    /\ fn = "RunWithTools" /\ pc = "request"
    /\ registry # {}
    /\ LoopCond(i)
    /\ \E r \in Responses :
        /\ req' = messages
        /\ nreq' = nreq + 1
        /\ vary' = vary + RespCost(r)
        /\ onlyTools' = (onlyTools /\ r.kind = "msg" /\ r.tool_calls # <<>>)
        /\ lastStep' = Step("chat", r.kind, r.content, r.tool_calls, "")
        /\ CASE r.kind = "fail" ->
                  /\ ChatFailed("agent failed")
                  /\ UNCHANGED <<messages, pending>>
             [] r.kind = "nochoice" ->
                  /\ result' = Err("no response from agent")
                  /\ pc' = "done"
                  /\ UNCHANGED <<messages, pending>>
             [] r.kind = "msg" /\ r.tool_calls = <<>> ->
                  /\ messages' = AppendResponse(messages, r)
                  /\ result' = Ok(FinalContent(r))
                  /\ pc' = "done"
                  /\ UNCHANGED pending
             [] OTHER ->
                  /\ messages' = AppendResponse(messages, r)
                  /\ pending' = r.tool_calls
                  /\ pc' = "exec"
                  /\ UNCHANGED result
    /\ UNCHANGED <<ctxDone, events, fn, registry, i, toolCallCount, history, handlerRuns>>
    /\ UNCHANGED notLoop

\* one pass of the inner loop over choice.Message.ToolCalls, agents.go 397-413
RWT_Exec ==
    /\ fn = "RunWithTools" /\ pc = "exec"
    /\ LET tc == Head(pending) IN
       \E o \in HandlerOutcomes :
         LET res == RegistryExecute(tc.name, o)
             text == ResultText(res)
             ran == tc.name \in registry
         IN
         /\ ran \/ o = Ok("out")
         /\ messages' = AppendToolMsg(messages, tc, text)
         /\ handlerRuns' = handlerRuns + (IF ran THEN 1 ELSE 0)
         /\ vary' = vary + (IF ran THEN OutcomeCost(o) ELSE 0)
         /\ lastStep' = Step("tool", "msg", text, <<tc>>,
                             CASE ~ran -> "unknown" [] o.kind = "err" -> "handler"
                               [] OTHER -> "")
         /\ pending' = Tail(pending)
         /\ IF Tail(pending) = <<>>
               THEN pc' = "request" /\ i' = i + 1
               ELSE pc' = "exec" /\ i' = i
    /\ UNCHANGED <<ctxDone, events, fn, registry, toolCallCount, history, result, req, nreq, onlyTools>>
    /\ UNCHANGED notLoop

\* the loop condition fails: agents.go 416
RWT_Ceiling ==
    /\ fn = "RunWithTools" /\ pc = "request"
    /\ registry # {}
    /\ ~LoopCond(i)
    /\ result' = Err("agent exceeded maximum tool call iterations")
    /\ pc' = "done"
    /\ lastStep' = Step("ceiling", "none", "", <<>>, "")
    /\ UNCHANGED <<ctxDone, events, fn, registry, messages, pending, i, toolCallCount, history,
                   req, nreq, handlerRuns, onlyTools, vary>>
    /\ UNCHANGED notLoop

\* no tools registered: fall back to Coordinator.Run, agents.go 355-359, 309-340
RWT_Fallback ==
    /\ fn = "RunWithTools" /\ pc = "request"
    /\ registry = {}
    /\ \E r \in {x \in Responses : x.tool_calls = <<>>} :
        /\ req' = messages
        /\ nreq' = nreq + 1
        /\ onlyTools' = FALSE
        /\ lastStep' = Step("run", r.kind, r.content, <<>>, "")
        /\ result' = CASE r.kind = "fail" -> Err("agent failed")
                       [] r.kind = "nochoice" -> Err("no response from agent")
                       [] OTHER -> Ok(FinalContent(r))
        /\ pc' = "done"
    /\ UNCHANGED <<ctxDone, events, fn, registry, messages, pending, i, toolCallCount, history,
                   handlerRuns, vary>>
    /\ UNCHANGED notLoop

-----------------------------------------------------------------------------
(* ZAIProvider.ChatWithTools *)

\* one model request of the loop body, providers 168-192
CWT_Chat ==
    /\ fn = "ChatWithTools" /\ pc = "request"
    /\ nreq < MaxRounds
    /\ \E r \in Responses :
        /\ req' = messages
        /\ nreq' = nreq + 1
        /\ vary' = vary + RespCost(r)
        /\ onlyTools' = (onlyTools /\ r.kind = "msg" /\ r.tool_calls # <<>>)
        /\ lastStep' = Step("chat", r.kind, r.content, r.tool_calls, "")
        /\ CASE r.kind = "fail" ->
                  /\ ChatFailed("chat error")
                  /\ UNCHANGED <<messages, pending, history>>
             [] r.kind = "nochoice" ->
                  /\ result' = Ok("")
                  /\ pc' = "done"
                  /\ UNCHANGED <<messages, pending, history>>
             [] r.kind = "msg" /\ r.tool_calls = <<>> ->
                  /\ messages' = AppendResponse(messages, r)
                  /\ history' = messages'
                  /\ result' = Ok(FinalContent(r))
                  /\ pc' = "done"
                  /\ UNCHANGED pending
             [] OTHER ->
                  /\ messages' = AppendResponse(messages, r)
                  /\ pending' = r.tool_calls
                  /\ pc' = "exec"
                  /\ UNCHANGED <<result, history>>
    /\ UNCHANGED <<ctxDone, events, fn, registry, i, toolCallCount, handlerRuns>>
    /\ UNCHANGED notLoop

\* one pass of the inner loop, providers 195-211; the executor is the caller's
CWT_Exec ==
    /\ fn = "ChatWithTools" /\ pc = "exec"
    /\ LET tc == Head(pending) IN
       \E o \in HandlerOutcomes :
         LET text == ResultText(o) IN
         /\ messages' = AppendToolMsg(messages, tc, text)
         /\ handlerRuns' = handlerRuns + 1
         /\ vary' = vary + OutcomeCost(o)
         /\ lastStep' = Step("tool", "msg", text, <<tc>>,
                             IF o.kind = "err" THEN "handler" ELSE "")
         /\ pending' = Tail(pending)
         /\ pc' = IF Tail(pending) = <<>> THEN "request" ELSE "exec"
    /\ UNCHANGED <<ctxDone, events, fn, registry, i, toolCallCount, history, result, req, nreq, onlyTools>>
    /\ UNCHANGED notLoop

-----------------------------------------------------------------------------
(* cli.RunOneShotTools *)

\* one model request of the loop body, oneshot 74-103
OST_Chat ==
    /\ fn = "RunOneShotTools" /\ pc = "request"
    /\ \E r \in Responses :
        /\ req' = messages
        /\ nreq' = nreq + 1
        /\ vary' = vary + RespCost(r)
        /\ onlyTools' = (onlyTools /\ r.kind = "msg" /\ r.tool_calls # <<>>)
        /\ lastStep' = Step("chat", r.kind, r.content, r.tool_calls, "")
        /\ CASE r.kind = "fail" ->
                  /\ ChatFailed("chat error")
                  /\ UNCHANGED <<pending, toolCallCount>>
             [] r.kind = "nochoice" ->
                  /\ result' = Err("empty response")
                  /\ pc' = "done"
                  /\ UNCHANGED <<pending, toolCallCount>>
             [] r.kind = "msg" /\ r.tool_calls = <<>> ->
                  /\ result' = Ok(FinalContent(r))
                  /\ pc' = "done"
                  /\ UNCHANGED <<pending, toolCallCount>>
             [] OTHER ->
                  /\ toolCallCount' = toolCallCount + 1
                  /\ IF ExceedsLimit(toolCallCount')
                        THEN /\ result' = Err("max tool calls exceeded")
                             /\ pc' = "done"
                             /\ UNCHANGED pending
                        ELSE /\ pending' = r.tool_calls
                             /\ pc' = "exec"
                             /\ UNCHANGED result
    /\ UNCHANGED <<ctxDone, events, fn, registry, messages, i, history, handlerRuns>>
    /\ UNCHANGED notLoop

\* one pass of the inner loop, oneshot 106-141
OST_Exec ==
    /\ fn = "RunOneShotTools" /\ pc = "exec"
    /\ LET tc == Head(pending) IN
       \E o \in HandlerOutcomes :
         LET found == tc.name \in registry
             ran == found /\ JsonOk(tc.args)
             text == CASE ~found -> ErrorText("tool not found")
                       [] found /\ ~JsonOk(tc.args) -> ErrorText("invalid arguments")
                       [] OTHER -> ResultText(o)
         IN
         /\ ran \/ o = Ok("out")
         /\ messages' = AppendToolMsg(messages, tc, text)
         /\ handlerRuns' = handlerRuns + (IF ran THEN 1 ELSE 0)
         /\ vary' = vary + (IF ran THEN OutcomeCost(o) ELSE 0)
         /\ lastStep' = Step("tool", "msg", text, <<tc>>,
                             CASE ~found -> "unknown" [] ~ran -> "badargs"
                               [] o.kind = "err" -> "handler" [] OTHER -> "")
         /\ pending' = Tail(pending)
         /\ pc' = IF Tail(pending) = <<>> THEN "request" ELSE "exec"
    /\ UNCHANGED <<ctxDone, events, fn, registry, i, toolCallCount, history, result, req, nreq, onlyTools>>
    /\ UNCHANGED notLoop

-----------------------------------------------------------------------------
(* EnhancedZAIProvider.executeToolCall *)

\* StreamEvent{Type, Content, ToolCall}
StreamEvent(type, content, id) == [type |-> type, content |-> content, id |-> id]

\* the whole function, zai_enhanced.go 179-222: parse the arguments, send the
\* tool-call event, look the tool up, run its handler, send the result event
ETC_Exec ==
    /\ fn = "executeToolCall" /\ pc = "exec"
    /\ LET tc == Head(pending) IN
       \E o \in HandlerOutcomes :
         LET parsed == JsonOk(tc.args)
             found == tc.name \in registry
             ran == parsed /\ found
             called == StreamEvent("tool_call", tc.name, tc.id)
         IN
         /\ ran \/ o = Ok("out")
         /\ events' = CASE ~parsed -> events
                         [] parsed /\ ~found -> Append(events, called)
                         [] OTHER -> events \o <<called, StreamEvent("tool_result", ResultText(o), "")>>
         /\ result' = CASE ~parsed -> Err("invalid tool arguments")
                         [] parsed /\ ~found -> Err("unknown tool")
                         [] OTHER -> Ok("")
         /\ handlerRuns' = handlerRuns + (IF ran THEN 1 ELSE 0)
         /\ vary' = vary + (IF ran THEN OutcomeCost(o) ELSE 0)
         /\ lastStep' = Step("tool", "event", IF ran THEN ResultText(o) ELSE "", <<tc>>,
                             CASE ~parsed -> "badargs" [] ~found -> "unknown"
                               [] o.kind = "err" -> "handler" [] OTHER -> "")
         /\ pending' = Tail(pending)
         /\ pc' = "done"
    /\ UNCHANGED <<ctxDone, fn, registry, messages, i, toolCallCount, history, req, nreq, onlyTools>>
    /\ UNCHANGED notLoop

-----------------------------------------------------------------------------

\* the state at the entry of each loop function, and of executeToolCall with
\* the tool call it is given
InitLoop ==
    /\ \/ /\ fn \in {"RunWithTools", "ChatWithTools", "RunOneShotTools"}
          /\ pc = "request"
          /\ pending = <<>>
       \/ /\ fn = "executeToolCall"
          /\ pc = "exec"
          /\ pending \in {<<tc>> : tc \in {x \in ToolCall : x.id = IdAt(1)}}
    /\ events = <<>>
    /\ ctxDone = FALSE
    /\ registry \in {{}, {"t1"}}
    /\ fn = "ChatWithTools" => registry = {}
    /\ history \in {<<>>, <<SystemMsg("prompt")>>}
    /\ fn # "ChatWithTools" => history = <<>>
    /\ messages = CASE fn = "RunWithTools" -> <<SystemMsg("prompt"), UserMsg("task")>>
                     [] fn = "ChatWithTools" -> Append(history, UserMsg("task"))
                     [] fn = "RunOneShotTools" -> <<UserMsg("task")>>
                     [] OTHER -> <<>>
    /\ i = 0
    /\ toolCallCount = 0
    /\ result = None
    /\ req = <<>>
    /\ nreq = 0
    /\ handlerRuns = 0
    /\ onlyTools = TRUE
    /\ lastStep = Step("init", "none", "", <<>>, "")
    /\ vary = 0

\* the caller cancels the context passed to the running function;
\* RunOneShotTools runs under context.Background()
Cancel ==
    /\ fn # "RunOneShotTools"
    /\ ~ctxDone
    /\ pc # "done"
    /\ ctxDone' = TRUE
    /\ UNCHANGED <<fn, pc, registry, messages, pending, i, toolCallCount, history,
                   result, req, nreq, handlerRuns, onlyTools, lastStep, vary, events>>
    /\ UNCHANGED notLoop

NextLoop ==
    \/ RWT_Chat
    \/ RWT_Exec
    \/ RWT_Ceiling
    \/ RWT_Fallback
    \/ CWT_Chat
    \/ CWT_Exec
    \/ OST_Chat
    \/ OST_Exec
    \/ ETC_Exec

\* the loops with a caller that may cancel
NextCancel ==
    \/ NextLoop
    \/ Cancel

-----------------------------------------------------------------------------
(* Properties of the tool loops *)

IsToolLoop == fn \in {"RunWithTools", "ChatWithTools"}

\* every assistant message of h with N >= 1 tool calls is followed by exactly
\* N tool messages, the j-th carrying the id of the j-th call
ToolMsgsFollowCalls(h) ==
    \A p \in 1..Len(h) :
        (h[p].role = "assistant" /\ h[p].tool_calls # <<>>) =>
            LET N == Len(h[p].tool_calls) IN
            /\ Len(h) >= p + N
            /\ \A j \in 1..N : /\ h[p + j].role = "tool"
                               /\ h[p + j].tool_call_id = h[p].tool_calls[j].id
            /\ (Len(h) > p + N => h[p + N + 1].role # "tool")

\* C1: in RunWithTools and ChatWithTools every response with N >= 1 tool calls
\* has exactly N tool messages appended after it, in the order of the calls,
\* in every history sent with a model request and whenever the loop is about
\* to send the next request.
C1_ToolMessagesPerResponse ==
    IsToolLoop =>
        /\ ToolMsgsFollowCalls(req)
        /\ (pc = "request" => ToolMsgsFollowCalls(messages))

C1_Witness ==
    /\ fn = "RunWithTools"
    /\ nreq >= 2
    /\ \E p \in 1..Len(req) : Len(req[p].tool_calls) = 2

\* C2: RunWithTools with a registered tool never sends more than maxIterations
\* model requests, and a task whose every response carried tool calls ends
\* with the iteration-ceiling error after exactly maxIterations requests.
C2_IterationCeiling ==
    (fn = "RunWithTools" /\ registry # {}) =>
        /\ nreq <= maxIterations
        /\ (pc = "done" /\ onlyTools) =>
               /\ result = Err("agent exceeded maximum tool call iterations")
               /\ nreq = maxIterations
        /\ (onlyTools /\ nreq = maxIterations /\ pc = "request") => i = maxIterations

C2_Witness ==
    /\ fn = "RunWithTools"
    /\ pc = "done"
    /\ onlyTools
    /\ nreq = maxIterations
    /\ result.kind = "err"

FinalResponseStep ==
    lastStep.op = "chat" /\ lastStep.kind = "msg" /\ lastStep.tool_calls = <<>>

\* C5: a response without tool calls ends the loop at once: the function has
\* returned the response's text, no tool call is pending, and nothing (no
\* handler, no model request) runs afterwards.
C5_NoToolCallsIsTerminal ==
    /\ [](FinalResponseStep =>
            /\ pc = "done"
            /\ pending = <<>>
            /\ result = Ok(ContentString(lastStep.content)))
    /\ [][FinalResponseStep => (nreq' = nreq /\ handlerRuns' = handlerRuns)]_vars
    /\ [][(lastStep'.op = "chat" /\ lastStep'.kind = "msg" /\ lastStep'.tool_calls = <<>>)
            => handlerRuns' = handlerRuns]_vars

C5_Witness ==
    /\ fn = "RunWithTools"
    /\ FinalResponseStep
    /\ lastStep.content = "text"
    /\ nreq >= 2
    /\ result = Ok("text")

\* C6: a handler error does not end the task: its text becomes the content of
\* the tool message for that call, which is the last message of the history,
\* and the loop goes on with the remaining calls or the next model request.
C6_HandlerErrorAbsorbed ==
    (fn # "executeToolCall" /\ lastStep.op = "tool" /\ lastStep.err = "handler") =>
        /\ result = None
        /\ pc = (IF pending = <<>> THEN "request" ELSE "exec")
        /\ lastStep.content = ErrorText("boom")
        /\ messages[Len(messages)] = ToolMsg(lastStep.tool_calls[1].id, ErrorText("boom"))

C6_Witness ==
    /\ lastStep.op = "tool"
    /\ lastStep.err = "handler"
    /\ pending # <<>>
    /\ fn = "RunWithTools"

RequestFailed == result \in {Err("agent failed"), Err("chat error")}

\* C7: a failed model request ends the task with that error; afterwards no
\* model request is sent and no handler runs.
C7_RequestFailureIsFatal ==
    /\ [](lastStep.kind = "fail" => (pc = "done" /\ RequestFailed))
    /\ [][(RequestFailed \/ lastStep.kind = "fail") =>
            (nreq' = nreq /\ handlerRuns' = handlerRuns /\ messages' = messages)]_vars

C7_Witness ==
    /\ lastStep.kind = "fail"
    /\ fn = "ChatWithTools"
    /\ nreq = 2
    /\ handlerRuns = 1

\* C8: in every history sent to the model, each tool message carries the id of
\* a tool call of an assistant message that occurs earlier in that history.
C8_ToolCallIdsResolve ==
    \A p \in 1..Len(req) :
        req[p].role = "tool" =>
            \E q \in 1..(p - 1) :
                /\ req[q].role = "assistant"
                /\ \E j \in 1..Len(req[q].tool_calls) :
                       req[q].tool_calls[j].id = req[p].tool_call_id

\* the text is an error result
IsErrorText(c) ==
    c \in {ErrorText("unknown tool"), ErrorText("tool not found"),
           ErrorText("invalid arguments"), ErrorText("boom")}

\* the last thing delivered for tool call tc is an error result: a tool message
\* with tc's id in the loops, a tool-result event in executeToolCall
ErrorResultDelivered(msgs, evs, tc) ==
    IF fn = "executeToolCall"
      THEN evs # <<>> /\ evs[Len(evs)].type = "tool_result"
      ELSE /\ msgs # <<>>
           /\ msgs[Len(msgs)].role = "tool"
           /\ msgs[Len(msgs)].tool_call_id = tc.id
           /\ IsErrorText(msgs[Len(msgs)].content)

\* the functions that look the tool's handler up themselves
LooksUpHandler == fn \in {"RunWithTools", "RunOneShotTools", "executeToolCall"}

\* C13: a tool call whose name has no registered handler does not end the
\* task or the stream with an error: a not-found error result is delivered for
\* that call (tool message or tool-result event) and processing goes on.
C13_UnknownToolAbsorbed ==
    (LooksUpHandler /\ lastStep.op = "tool" /\ lastStep.tool_calls[1].name \notin registry) =>
        /\ result.kind # "err"
        /\ ErrorResultDelivered(messages, events, lastStep.tool_calls[1])
        /\ fn # "executeToolCall" => pc = (IF pending = <<>> THEN "request" ELSE "exec")

\* the same for the two loops alone
C13_LoopsAbsorbUnknownTool ==
    fn \in {"RunWithTools", "RunOneShotTools"} => C13_UnknownToolAbsorbed

\* C14: a tool call whose arguments are not a JSON object: in that step no
\* handler runs, an error result is delivered for the call, and the function
\* does not return an error.
C14_BadArgumentsFailFast ==
    [][(pc = "exec" /\ lastStep'.op = "tool" /\ ~JsonOk(Head(pending).args)) =>
          /\ handlerRuns' = handlerRuns
          /\ result'.kind # "err"
          /\ ErrorResultDelivered(messages', events', Head(pending))]_vars

\* the same for RunOneShotTools alone
C14_OneShotFailsFast ==
    [][fn = "RunOneShotTools" =>
         ((pc = "exec" /\ lastStep'.op = "tool" /\ ~JsonOk(Head(pending).args)) =>
            /\ handlerRuns' = handlerRuns
            /\ result'.kind # "err"
            /\ ErrorResultDelivered(messages', events', Head(pending)))]_vars

\* a pass of the inner loop over the tool calls of the current response
ToolCallStarts == pc = "exec" /\ pending' = Tail(pending) /\ lastStep'.op = "tool"

\* C22: once the context is cancelled, RunWithTools and ChatWithTools start no
\* further tool call of the response they are working on: no executor call,
\* no handler run, no tool message.
C22_NoToolCallAfterCancel ==
    [][(IsToolLoop /\ ctxDone) => ~ToolCallStarts]_vars

\* after the cancellation no model request succeeds, so no new response and
\* no new tool calls arrive
C22_NoResponseAfterCancel ==
    [][(IsToolLoop /\ ctxDone /\ nreq' > nreq) =>
          (lastStep'.kind = "fail" /\ pc' = "done" /\ result'.kind = "err")]_vars

\* C28: ChatWithTools is bounded: when every response carried tool calls, it
\* has returned by the time it sent MaxRounds requests and executed their
\* tool calls.
C28_ChatWithToolsBounded ==
    (fn = "ChatWithTools" /\ onlyTools /\ nreq = MaxRounds /\ pending = <<>>) => pc = "done"

\* the loop of RunWithTools does end in that situation, at maxIterations
C28_RunWithToolsBounded ==
    (fn = "RunWithTools" /\ registry # {} /\ onlyTools /\ nreq = maxIterations /\ pending = <<>>)
        => (pc = "done" \/ ~LoopCond(i))

\* ZAIProvider.ChatWithTools replaces the stored history only by the whole
\* conversation, at a response without tool calls; a failed request or a
\* response without choices leaves it as it was
C39_ChatWithToolsHistory ==
    [][(fn = "ChatWithTools" /\ history' # history) =>
          (FinalResponseStep' /\ history' = messages' /\ result'.kind = "ok")]_vars

\* C29: RunOneShotTools executes the tool calls of at most maxToolCalls
\* responses.  Every response before the last carried tool calls, so while
\* the loop runs at most maxToolCalls requests were sent; the response that
\* exceeds the limit ends the function with the max-tool-calls error and none
\* of its calls is executed; a model that always returns tool calls ends so.
C29_ToolRoundsBounded ==
    /\ [](fn = "RunOneShotTools" =>
            /\ pc # "done" => nreq <= maxToolCalls
            /\ nreq <= maxToolCalls + 1
            /\ nreq = maxToolCalls + 1 => (pc = "done" /\ pending = <<>>)
            /\ (pc = "done" /\ onlyTools) =>
                  (nreq = maxToolCalls + 1 /\ result = Err("max tool calls exceeded")))
    /\ [][(fn = "RunOneShotTools" /\ nreq' = maxToolCalls + 1 /\ nreq = maxToolCalls
            /\ lastStep'.tool_calls # <<>>) =>
             /\ result' = Err("max tool calls exceeded")
             /\ pc' = "done"
             /\ messages' = messages /\ handlerRuns' = handlerRuns]_vars
    /\ [][(fn = "RunOneShotTools" /\ pc = "done") =>
             (messages' = messages /\ handlerRuns' = handlerRuns /\ nreq' = nreq)]_vars

\* five rounds were executed and the sixth response carried tool calls too
C29_Witness ==
    /\ fn = "RunOneShotTools"
    /\ onlyTools
    /\ nreq = maxToolCalls + 1
    /\ handlerRuns >= maxToolCalls
    /\ lastStep.tool_calls # <<>>
    /\ result = Err("max tool calls exceeded")

\* s is a prefix of t
IsPrefix(s, t) == Len(s) <= Len(t) /\ SubSeq(t, 1, Len(s)) = s

\* C30: in RunWithTools the history only grows at its end: every step leaves
\* the messages so far in place, and the list sent with a model request
\* extends the list sent with the request before it.
C30_HistoryAppendOnly ==
    [][fn = "RunWithTools" =>
         /\ IsPrefix(messages, messages')
         /\ IsPrefix(req, req')
         /\ nreq' > nreq => (req' = messages /\ IsPrefix(req', messages'))]_vars

\* a third request whose history holds two responses and their tool messages
C30_Witness ==
    /\ fn = "RunWithTools"
    /\ nreq = 3
    /\ Len(req) >= 6
    /\ req[3].role = "assistant" /\ req[4].role = "tool"
    /\ messages # req

-----------------------------------------------------------------------------
(* mcp.Manager: Start, Stop, Call over child processes                      *)
(*                                                                         *)
(* Manager.mu is held shared only inside Call's lookup, which is one step, *)
(* so only its exclusive holder is state.  Call reads proc.Running after   *)
(* RUnlock without any lock; that unsynchronised read is its own step and  *)
(* sees whichever value the interleaving with Stop gives.                  *)

Threads == 1..NumThreads
\* the goroutines contend for one server name
ServerNames == {"s1"}

NoProc == [name |-> "", Running |-> FALSE, mu |-> 0, stdinOpen |-> FALSE,
           alive |-> FALSE, inq |-> <<>>, outq |-> <<>>]

\* a response line in a process's stdout pipe: the request it answers, its
\* kind and the process that wrote it
Line(tag, kind, by) == [tag |-> tag, kind |-> kind, by |-> by]

NewProcess_Leftover(n) == [name |-> n, Running |-> TRUE, mu |-> 0, stdinOpen |-> TRUE,
                           alive |-> TRUE, inq |-> <<>>, outq |-> <<Line(1, "result", 0)>>]

\* &Process{Server: server, Cmd: cmd, Stdin: stdin, Stdout: stdout, Running: true}
NewProcess(n) == [name |-> n, Running |-> TRUE, mu |-> 0, stdinOpen |-> TRUE,
                  alive |-> TRUE, inq |-> <<>>, outq |-> <<>>]

Ret(op, kind, tag) == [op |-> op, kind |-> kind, tag |-> tag]
NoRet == Ret("none", "none", 0)

\* the operation a goroutine at pc is in
OpOf(at) == CASE at = "start" -> "start"
              [] at \in {"stop", "stop_kill"} -> "stop"
              [] at \in {"status", "list"} -> at
              [] OTHER -> "call"

InitMgr ==
    /\ servers = [n \in ServerNames |-> 0]
    /\ procs = [p \in 1..MaxProcs |-> NoProc]
    /\ nprocs = 0
    /\ mmu = 0
    /\ tpc = [t \in Threads |-> "idle"]
    /\ targ = [t \in Threads |-> "s1"]
    /\ tproc = [t \in Threads |-> 0]
    /\ tret = [t \in Threads |-> NoRet]
    /\ tctx = [t \in Threads |-> "none"]

\* a goroutine calls Start, Stop or Call with a server name
Invoke(t) ==
    /\ tpc[t] = "idle"
    /\ \E op \in {"start", "stop", "call"}, n \in ServerNames :
        /\ tpc' = [tpc EXCEPT ![t] = op]
        /\ targ' = [targ EXCEPT ![t] = n]
    /\ tret' = [tret EXCEPT ![t] = NoRet]
    /\ UNCHANGED <<servers, procs, nprocs, mmu, tproc, tctx>>
    /\ UNCHANGED notMgr

\* the operation of goroutine t returns; its arguments and locals are gone,
\* and the deferred cancel() of CallWithTimeout releases its context
Return(t, kind, tag) ==
    /\ tpc' = [tpc EXCEPT ![t] = "idle"]
    /\ tctx' = [tctx EXCEPT ![t] = "none"]
    /\ tret' = [tret EXCEPT ![t] = Ret(OpOf(tpc[t]), kind, tag)]
    /\ targ' = [targ EXCEPT ![t] = "s1"]
    /\ tproc' = [tproc EXCEPT ![t] = 0]

\* goroutine t goes on to `at` with its local proc set to p; the name is not
\* used after the lookup in the table
Goto(t, at, p) ==
    /\ tpc' = [tpc EXCEPT ![t] = at]
    /\ tproc' = [tproc EXCEPT ![t] = p]
    /\ targ' = [targ EXCEPT ![t] = "s1"]
    /\ UNCHANGED <<tret, tctx>>

IsRunning(n) == servers[n] # 0 /\ procs[servers[n]].Running

StartGuard_Never(n) == FALSE

\* if proc, exists := m.servers[server.Name]; exists && proc.Running
StartGuard(n) == IsRunning(n)

\* Manager.Start: the whole body runs under m.mu.Lock()
Start(t) ==
    /\ tpc[t] = "start"
    /\ mmu = 0
    /\ LET n == targ[t] IN
       IF StartGuard(n)
         THEN /\ Return(t, "already_running", 0)
              /\ UNCHANGED <<servers, procs, nprocs>>
         ELSE \/ /\ Return(t, "launch_err", 0)
                 /\ UNCHANGED <<servers, procs, nprocs>>
              \/ /\ nprocs < MaxProcs
                 /\ nprocs' = nprocs + 1
                 /\ procs' = [procs EXCEPT ![nprocs + 1] = NewProcess(n)]
                 /\ servers' = [servers EXCEPT ![n] = nprocs + 1]
                 /\ Return(t, "ok", 0)
    /\ UNCHANGED mmu
    /\ UNCHANGED notMgr

\* Manager.Stop up to proc.mu.Lock(): takes m.mu and keeps it until it returns
StopAcquire(t) ==
    /\ tpc[t] = "stop"
    /\ mmu = 0
    /\ LET n == targ[t] IN
       CASE servers[n] = 0 ->
              /\ Return(t, "not_found", 0)
              /\ UNCHANGED mmu
         [] servers[n] # 0 /\ ~procs[servers[n]].Running ->
              /\ Return(t, "ok", 0)
              /\ UNCHANGED mmu
         [] OTHER ->
              /\ mmu' = t
              /\ Goto(t, "stop_kill", servers[n])
    /\ UNCHANGED <<servers, procs, nprocs>>
    /\ UNCHANGED notMgr

StopKill_LeavesStdin(t) ==
    /\ tpc[t] = "stop_kill"
    /\ procs[tproc[t]].mu = 0
    /\ procs' = [procs EXCEPT ![tproc[t]] =
                    [@ EXCEPT !.alive = FALSE, !.inq = <<>>, !.Running = FALSE]]
    /\ mmu' = 0
    /\ Return(t, "ok", 0)
    /\ UNCHANGED <<servers, nprocs>>
    /\ UNCHANGED notMgr

StopKill_NoProcLock(t) ==
    /\ tpc[t] = "stop_kill"
    /\ procs' = [procs EXCEPT ![tproc[t]] =
                    [@ EXCEPT !.stdinOpen = FALSE, !.alive = FALSE,
                              !.inq = <<>>, !.Running = FALSE]]
    /\ mmu' = 0
    /\ Return(t, "ok", 0)
    /\ UNCHANGED <<servers, nprocs>>
    /\ UNCHANGED notMgr

\* Manager.Stop from proc.mu.Lock(): close stdin, kill, Running = false, unlock.
\* The child is never waited for, so Kill finds the pid and succeeds.
StopKill(t) ==
    /\ tpc[t] = "stop_kill"
    /\ procs[tproc[t]].mu = 0
    /\ procs' = [procs EXCEPT ![tproc[t]] =
                    [@ EXCEPT !.stdinOpen = FALSE, !.alive = FALSE,
                              !.inq = <<>>, !.Running = FALSE]]
    /\ mmu' = 0
    /\ Return(t, "ok", 0)
    /\ UNCHANGED <<servers, nprocs>>
    /\ UNCHANGED notMgr

\* Manager.Call: m.mu.RLock(); proc, exists := m.servers[name]; m.mu.RUnlock()
CallLookup(t) ==
    /\ tpc[t] = "call"
    /\ mmu = 0
    /\ Goto(t, "call_check", servers[targ[t]])
    /\ UNCHANGED <<servers, procs, nprocs, mmu>>
    /\ UNCHANGED notMgr

\* Manager.Call: if !exists || !proc.Running { return error }
CallCheck(t) ==
    /\ tpc[t] = "call_check"
    /\ IF tproc[t] = 0 \/ ~procs[tproc[t]].Running
         THEN Return(t, "not_running", 0)
         ELSE Goto(t, "call_lock", tproc[t])
    /\ UNCHANGED <<servers, procs, nprocs, mmu>>
    /\ UNCHANGED notMgr

CallLock_NoMutex(t) ==
    /\ tpc[t] = "call_lock"
    /\ Goto(t, "call_write", tproc[t])
    /\ UNCHANGED <<servers, procs, nprocs, mmu>>
    /\ UNCHANGED notMgr

\* Manager.Call: proc.mu.Lock()
CallLock(t) ==
    /\ tpc[t] = "call_lock"
    /\ procs[tproc[t]].mu = 0
    /\ procs' = [procs EXCEPT ![tproc[t]].mu = t]
    /\ Goto(t, "call_write", tproc[t])
    /\ UNCHANGED <<servers, nprocs, mmu>>
    /\ UNCHANGED notMgr

\* the deferred proc.mu.Unlock() of Call
Unlock(pr, t) == IF pr.mu = t THEN [pr EXCEPT !.mu = 0] ELSE pr

\* Manager.Call: proc.Stdin.Write(append(reqBytes, '\n')); the request carries
\* the caller's method and params, here the caller's number
CallWrite(t) ==
    /\ tpc[t] = "call_write"
    /\ LET p == tproc[t] IN
       IF procs[p].stdinOpen /\ procs[p].alive
         THEN /\ procs' = [procs EXCEPT ![p].inq = Append(@, t)]
              /\ Goto(t, "call_read", p)
         ELSE /\ procs' = [procs EXCEPT ![p] = Unlock(@, t)]
              /\ Return(t, "write_err", 0)
    /\ UNCHANGED <<servers, nprocs, mmu>>
    /\ UNCHANGED notMgr

CallRead_RelocksManager(t) ==
    /\ tpc[t] = "call_read"
    /\ mmu = 0
    /\ LET p == tproc[t] IN
       /\ procs[p].outq # <<>> \/ ~procs[p].alive
       /\ IF procs[p].outq # <<>>
            THEN LET line == Head(procs[p].outq) IN
                 /\ procs' = [procs EXCEPT ![p] = Unlock([@ EXCEPT !.outq = <<>>], t)]
                 /\ Return(t, IF line.kind = "result" THEN "ok" ELSE "remote_err", line.tag)
            ELSE /\ procs' = [procs EXCEPT ![p] = Unlock(@, t)]
                 /\ Return(t, "read_err", 0)
    /\ UNCHANGED <<servers, nprocs, mmu>>
    /\ UNCHANGED notMgr

CallRead_NoEOF(t) ==
    /\ tpc[t] = "call_read"
    /\ LET p == tproc[t] IN
       /\ procs[p].outq # <<>>
       /\ LET line == Head(procs[p].outq) IN
          /\ procs' = [procs EXCEPT ![p] = Unlock([@ EXCEPT !.outq = <<>>], t)]
          /\ Return(t, IF line.kind = "result" THEN "ok" ELSE "remote_err", line.tag)
    /\ UNCHANGED <<servers, nprocs, mmu>>
    /\ UNCHANGED notMgr

\* Manager.Call: bufio.NewReader(proc.Stdout).ReadBytes('\n') and the decoding
\* of the line.  The reader is new in every call: what it has read beyond the
\* first line is dropped with it.  A dead child's drained pipe gives EOF.
CallRead(t) ==
    /\ tpc[t] = "call_read"
    /\ LET p == tproc[t] IN
       /\ procs[p].outq # <<>> \/ ~procs[p].alive
       /\ IF procs[p].outq # <<>>
            THEN LET line == Head(procs[p].outq) IN
                 /\ procs' = [procs EXCEPT ![p] = Unlock([@ EXCEPT !.outq = <<>>], t)]
                 /\ Return(t, IF line.kind = "result" THEN "ok" ELSE "remote_err", line.tag)
            ELSE /\ procs' = [procs EXCEPT ![p] = Unlock(@, t)]
                 /\ Return(t, "read_err", 0)
    /\ UNCHANGED <<servers, nprocs, mmu>>
    /\ UNCHANGED notMgr

\* the child process answers one request line with one response line
ProviderRespond(p) ==
    /\ procs[p].alive
    /\ procs[p].inq # <<>>
    /\ \E k \in {"result", "error"} :
        procs' = [procs EXCEPT ![p] =
                    [@ EXCEPT !.inq = Tail(@),
                              !.outq = Append(@, Line(Head(procs[p].inq), k, p))]]
    /\ UNCHANGED <<servers, nprocs, mmu, tpc, targ, tproc, tret, tctx>>
    /\ UNCHANGED notMgr

\* the child process exits on its own; nothing in the Manager notices
ProcExit(p) ==
    /\ procs[p].alive
    /\ procs' = [procs EXCEPT ![p] = [@ EXCEPT !.alive = FALSE, !.inq = <<>>]]
    /\ UNCHANGED <<servers, nprocs, mmu, tpc, targ, tproc, tret, tctx>>
    /\ UNCHANGED notMgr

\* a goroutine calls Manager.CallWithTimeout: ctx, cancel := context.WithTimeout(...)
InvokeTimed(t) ==
    /\ tpc[t] = "idle"
    /\ \E n \in ServerNames : targ' = [targ EXCEPT ![t] = n]
    /\ tpc' = [tpc EXCEPT ![t] = "timed"]
    /\ tctx' = [tctx EXCEPT ![t] = "armed"]
    /\ tret' = [tret EXCEPT ![t] = NoRet]
    /\ UNCHANGED <<servers, procs, nprocs, mmu, tproc>>
    /\ UNCHANGED notMgr

\* the timeout of goroutine t's context expires
Expire(t) ==
    /\ tctx[t] = "armed"
    /\ tctx' = [tctx EXCEPT ![t] = "expired"]
    /\ UNCHANGED <<servers, procs, nprocs, mmu, tpc, targ, tproc, tret>>
    /\ UNCHANGED notMgr

\* CallWithTimeout: select { case <-ctx.Done(): return nil, ctx.Err(); default: }
\* and then m.Call(name, method, params), which does not take the context
TimedCheck(t) ==
    /\ tpc[t] = "timed"
    /\ IF tctx[t] = "expired"
         THEN Return(t, "deadline", 0)
         ELSE /\ tpc' = [tpc EXCEPT ![t] = "call"]
              /\ UNCHANGED <<targ, tproc, tret, tctx>>
    /\ UNCHANGED <<servers, procs, nprocs, mmu>>
    /\ UNCHANGED notMgr

\* a goroutine calls Manager.Status or Manager.List
InvokeQuery(t) ==
    /\ tpc[t] = "idle"
    /\ \E op \in {"status", "list"} : tpc' = [tpc EXCEPT ![t] = op]
    /\ tret' = [tret EXCEPT ![t] = NoRet]
    /\ UNCHANGED <<servers, procs, nprocs, mmu, targ, tproc, tctx>>
    /\ UNCHANGED notMgr

\* Manager.Status / Manager.List: the whole body runs under m.mu.RLock()
Query(t) ==
    /\ tpc[t] \in {"status", "list"}
    /\ mmu = 0
    /\ Return(t, "ok", 0)
    /\ UNCHANGED <<servers, procs, nprocs, mmu>>
    /\ UNCHANGED notMgr

NextMgr ==
    \/ \E t \in Threads : Invoke(t)
    \/ \E t \in Threads : Start(t)
    \/ \E t \in Threads : StopAcquire(t)
    \/ \E t \in Threads : StopKill(t)
    \/ \E t \in Threads : CallLookup(t)
    \/ \E t \in Threads : CallCheck(t)
    \/ \E t \in Threads : CallLock(t)
    \/ \E t \in Threads : CallWrite(t)
    \/ \E t \in Threads : CallRead(t)
    \/ \E p \in 1..MaxProcs : ProviderRespond(p)
    \/ \E p \in 1..MaxProcs : ProcExit(p)

\* the Manager with Status, List and CallWithTimeout beside Start, Stop, Call
NextMgrLive ==
    \/ NextMgr
    \/ \E t \in Threads : InvokeTimed(t)
    \/ \E t \in Threads : Expire(t)
    \/ \E t \in Threads : TimedCheck(t)
    \/ \E t \in Threads : InvokeQuery(t)
    \/ \E t \in Threads : Query(t)

\* a step of goroutine t inside a Manager operation
ThreadStep(t) ==
    \/ Start(t) \/ StopAcquire(t) \/ StopKill(t)
    \/ CallLookup(t) \/ CallCheck(t) \/ CallLock(t) \/ CallWrite(t) \/ CallRead(t)
    \/ TimedCheck(t) \/ Query(t)

\* every goroutine that can go on infinitely often does go on: the scheduler
\* runs every runnable goroutine and a sync.Mutex does not starve a waiter.
\* Nothing obliges the child process to answer or to exit.
MgrFairness == \A t \in Threads : SF_vars(ThreadStep(t))

-----------------------------------------------------------------------------
(* zhipu.Client.ChatStreamWithTools: the scanner loop of the decoder        *)
(* goroutine, in its two variants, fed by a server that splits the tool     *)
(* calls of one response into fragments.                                    *)

CallIdx == 1..MaxStreamCalls
SId(j) == <<"a", "b", "c">>[j]
SName(j) == <<"f", "g", "h">>[j]
Chunk(k) == <<"x", "y", "z">>[k]

RECURSIVE Cat(_)
\* concatenation of argument chunks
Cat(chunks) == IF chunks = <<>> THEN "" ELSE Head(chunks) \o Cat(Tail(chunks))

\* toolCallDelta / ToolCall inside a delta: one fragment of the call at `index`
Delta(index, id, name, arguments) ==
    [index |-> index, id |-> id, type |-> IF id = "" THEN "" ELSE "function",
     name |-> name, arguments |-> arguments]

\* one `data:` line of the stream
DataFrame(content, deltas, finish) ==
    [kind |-> "data", content |-> content, deltas |-> deltas, finish |-> finish,
     message |-> ""]
DoneFrame == [kind |-> "done", content |-> "", deltas |-> <<>>, finish |-> "",
              message |-> ""]

\* a frame of the non-streaming shape: choices[0].message.content beside the delta
MessageFrame(content, message) ==
    [DataFrame(content, <<>>, "") EXCEPT !.message = message]

\* `data: {not json`: json.Unmarshal of the payload fails
MalformedFrame == [DataFrame("", <<>>, "") EXCEPT !.kind = "bad"]

\* toolCallBuilder{} / a nil entry of the map
NoBuilder == [present |-> FALSE, id |-> "", typ |-> "", funcName |-> "", funcArgs |-> ""]
EmptyBuilder == [NoBuilder EXCEPT !.present = TRUE]
NoBuilders == [k \in 0..(MaxStreamCalls - 1) |-> NoBuilder]

\* toolCallBuilder.complete
complete(b) == b.id # "" /\ b.funcName # ""

\* toolCallBuilder.build
build(b) == [id |-> b.id, type |-> b.typ, name |-> b.funcName, arguments |-> b.funcArgs]

\* what a flush emits from one map entry: b.complete() in the builder variant,
\* tc != nil && tc.ID != "" in the fixed-index variant
Emits(v, b) == IF v = "builder" THEN b.present /\ complete(b)
               ELSE b.present /\ b.id # ""

\* for _, b := range map { if ... { toolCh <- ... } }: the map is walked in the
\* order ord, any order being possible
Flush(v, bs, ord) ==
    LET keep == SelectSeq(ord, LAMBDA k : Emits(v, bs[k]))
    IN [n \in 1..Len(keep) |-> build(bs[keep[n]])]

Orders == {o \in [1..MaxStreamCalls -> 0..(MaxStreamCalls - 1)] :
             \A a, b \in 1..MaxStreamCalls : a # b => o[a] # o[b]}
Ascending == [n \in 1..MaxStreamCalls |-> n - 1]

\* builder variant, part_010 229-246: merge one delta into the builder of its index
MergeDelta(bs, d) ==
    LET b0 == IF bs[d.index].present THEN bs[d.index] ELSE EmptyBuilder
        b1 == IF d.id # "" THEN [b0 EXCEPT !.id = d.id] ELSE b0
        b2 == IF d.type # "" THEN [b1 EXCEPT !.typ = d.type] ELSE b1
        b3 == IF d.name # "" THEN [b2 EXCEPT !.funcName = d.name] ELSE b2
        b4 == IF d.arguments # "" THEN [b3 EXCEPT !.funcArgs = @ \o d.arguments] ELSE b3
    IN [bs EXCEPT ![d.index] = b4]

\* fixed-index variant, part_010 481-505: idx := 0; a delta with an id starts a
\* new call and flushes the one in the buffer, a delta without id appends its
\* arguments to the buffered call.  Returns the map and what was sent on toolCh.
BufferDelta(bs, d) ==
    IF d.id # ""
      THEN [bs |-> [bs EXCEPT ![0] = [present |-> TRUE, id |-> d.id, typ |-> d.type,
                                      funcName |-> d.name, funcArgs |-> d.arguments]],
            out |-> IF bs[0].present /\ bs[0].id # "" THEN <<build(bs[0])>> ELSE <<>>]
      ELSE IF bs[0].present
             THEN [bs |-> [bs EXCEPT ![0].funcArgs = @ \o d.arguments], out |-> <<>>]
             ELSE [bs |-> bs, out |-> <<>>]

\* Client.ChatStream looks at delta.content and message.content only
ApplyDelta(v, st, d) ==
    CASE v = "builder" -> [st EXCEPT !.bs = MergeDelta(st.bs, d)]
      [] v = "fixed" -> LET r == BufferDelta(st.bs, d)
                        IN [st EXCEPT !.bs = r.bs, !.tools = @ \o r.out]
      [] OTHER -> st

RECURSIVE ApplyDeltas(_, _, _)
ApplyDeltas(v, st, ds) ==
    IF ds = <<>> THEN st ELSE ApplyDeltas(v, ApplyDelta(v, st, Head(ds)), Tail(ds))

SkipFrame_Abort(st) == [st EXCEPT !.closed = TRUE]

\* if err := json.Unmarshal([]byte(payload), &event); err != nil { continue }
SkipFrame(st) == st

OnDone_KeepsReading(v, st, ord) == [st EXCEPT !.tools = @ \o Flush(v, st.bs, ord)]

\* if payload == "[DONE]" { flush; return }
OnDone(v, st, ord) == [st EXCEPT !.tools = @ \o Flush(v, st.bs, ord), !.closed = TRUE]

\* one pass of `for scanner.Scan()` over the line `frame`, part_010 201-258 and
\* 454-516, part_009 525-549; st holds the map, what went to textCh and toolCh,
\* and whether the goroutine returned
ProcessFrame(v, st, frame, ord) ==
    CASE frame.kind = "done" -> OnDone(v, st, ord)
      [] frame.kind = "bad" -> SkipFrame(st)
      [] OTHER ->
           LET s0 == IF frame.content # "" THEN [st EXCEPT !.text = Append(@, frame.content)]
                     ELSE st
               s1 == IF v = "text" /\ frame.message # ""
                       THEN [s0 EXCEPT !.text = Append(@, frame.message)]
                       ELSE s0
               s2 == ApplyDeltas(v, s1, frame.deltas)
           IN IF v # "text" /\ frame.finish \in {"tool_calls", "stop"}
                THEN [s2 EXCEPT !.tools = @ \o Flush(v, s2.bs, ord), !.bs = NoBuilders]
                ELSE s2

\* the response's tool calls: call j has index j-1 and its arguments in chunks
StreamCall(j, m) == [id |-> SId(j), name |-> SName(j), chunks |-> [k \in 1..m |-> Chunk(k)]]
CallLists == UNION {{cs \in [1..n -> UNION {{StreamCall(j, m) : m \in 0..MaxChunks} : j \in 1..n}] :
                        \A j \in 1..n : cs[j].id = SId(j)} : n \in 1..MaxStreamCalls}

NoProgress == [id |-> FALSE, name |-> FALSE, k |-> 0, re |-> FALSE]
AllSent == \A j \in 1..Len(calls) :
              sprog[j].id /\ sprog[j].name /\ sprog[j].k = Len(calls[j].chunks)

InitStream ==
    /\ variant \in {"builder", "fixed"}
    /\ calls \in CallLists
    /\ sprog = [j \in 1..Len(calls) |-> NoProgress]
    /\ sphase = "frames"
    /\ nText = 0
    /\ spc = "reading"
    /\ toolCallBuilders = NoBuilders
    /\ textCh = <<>>
    /\ toolCh = <<>>
    /\ errCh = <<>>
    /\ wire = <<>>

DecoderState == [bs |-> toolCallBuilders, text |-> textCh, tools |-> toolCh,
                 closed |-> spc = "closed"]

\* the decoder scans `frame`
Scan(frame, ord) ==
    LET st == ProcessFrame(variant, DecoderState, frame, ord) IN
    /\ toolCallBuilders' = st.bs
    /\ textCh' = st.text
    /\ toolCh' = st.tools
    /\ spc' = IF st.closed THEN "closed" ELSE "reading"
    /\ UNCHANGED <<variant, calls, errCh>>
    /\ UNCHANGED notStream

\* the server sends a text fragment
ScanText ==
    /\ spc = "reading" /\ sphase = "frames"
    /\ nText < MaxText
    /\ nText' = nText + 1
    /\ Scan(DataFrame("hi", <<>>, ""), Ascending)
    /\ UNCHANGED <<sprog, sphase, wire>>

\* the server sends the next fragment of call j: its id, its name and the next
\* kk argument chunks, each of them or not, but not nothing
ScanFragment ==
    /\ spc = "reading" /\ sphase = "frames"
    /\ \E j \in 1..Len(calls) :
       \E sendId \in {FALSE, ~sprog[j].id}, sendName \in {FALSE, ~sprog[j].name},
          kk \in 0..(Len(calls[j].chunks) - sprog[j].k) :
        /\ sendId \/ sendName \/ kk > 0
        /\ sprog' = [sprog EXCEPT ![j] = [id |-> @.id \/ sendId, name |-> @.name \/ sendName,
                                          k |-> @.k + kk, re |-> @.re]]
        /\ Scan(DataFrame("", <<Delta(j - 1,
                                      IF sendId THEN calls[j].id ELSE "",
                                      IF sendName THEN calls[j].name ELSE "",
                                      Cat(SubSeq(calls[j].chunks, sprog[j].k + 1, sprog[j].k + kk)))>>,
                          ""), Ascending)
    /\ UNCHANGED <<sphase, nText, wire>>

\* a second, different id or name for an index whose id or name was sent
AltId(j) == <<"a2", "b2", "c2">>[j]
AltName(j) == <<"f2", "g2", "h2">>[j]

NoResend == \A j \in 1..Len(calls) : ~sprog[j].re

\* the server sends, once in a response, a fragment that carries another id or
\* another name for the index of call j
ScanResend ==
    /\ spc = "reading" /\ sphase = "frames"
    /\ NoResend
    /\ \E j \in 1..Len(calls), what \in {"id", "name"} :
        /\ what = "id" => sprog[j].id
        /\ what = "name" => sprog[j].name
        /\ sprog' = [sprog EXCEPT ![j].re = TRUE]
        /\ Scan(DataFrame("", <<Delta(j - 1,
                                      IF what = "id" THEN AltId(j) ELSE "",
                                      IF what = "name" THEN AltName(j) ELSE "",
                                      "")>>,
                          ""), Ascending)
    /\ UNCHANGED <<sphase, nText, wire>>

\* the server sends the frame with finish_reason "tool_calls"
ScanFinish ==
    /\ spc = "reading" /\ sphase = "frames"
    /\ AllSent
    /\ sphase' = "finished"
    /\ \E ord \in Orders : Scan(DataFrame("", <<>>, "tool_calls"), ord)
    /\ UNCHANGED <<sprog, nText, wire>>

\* the server sends `data: [DONE]`
ScanDone ==
    /\ spc = "reading" /\ sphase \in {"frames", "finished"}
    /\ AllSent
    /\ sphase' = "done"
    /\ \E ord \in Orders : Scan(DoneFrame, ord)
    /\ UNCHANGED <<sprog, nText, wire>>

\* the body ends without a [DONE] line: scanner.Scan() returns false and
\* scanner.Err() is nil at a plain end of input, an error otherwise
ScanEOF ==
    /\ spc = "reading" /\ sphase \in {"frames", "finished"}
    /\ sphase' = "eof"
    /\ spc' = "closed"
    /\ \E e \in {<<>>, <<"read error">>} : errCh' = errCh \o e
    /\ UNCHANGED <<variant, calls, sprog, nText, toolCallBuilders, textCh, toolCh, wire>>
    /\ UNCHANGED notStream

NextStream ==
    \/ ScanText
    \/ ScanFragment
    \/ ScanResend
    \/ ScanFinish
    \/ ScanDone
    \/ ScanEOF

-----------------------------------------------------------------------------
(* A text response: content frames, malformed frames, the terminator *)

Txt(k) == <<"He", "llo", ", ", "wor", "ld", "!">>[k]

IsData(f) == f.kind = "data"
IsBad(f) == f.kind = "bad"

\* a response without tool calls, read by any of the three decoders
InitText ==
    /\ variant \in {"text", "builder", "fixed"}
    /\ calls = <<>>
    /\ sprog = <<>>
    /\ sphase = "frames"
    /\ nText = 0
    /\ spc = "reading"
    /\ toolCallBuilders = NoBuilders
    /\ textCh = <<>>
    /\ toolCh = <<>>
    /\ errCh = <<>>
    /\ wire = <<>>

\* the server sends a content frame; its delta content may be empty, and it may
\* carry a message content as well
SendText ==
    /\ spc = "reading" /\ sphase = "frames"
    /\ Len(SelectSeq(wire, IsData)) < MaxDeltas
    /\ \E content \in {"", Txt(Len(wire) + 1)}, message \in {"", "full"} :
        LET frame == MessageFrame(content, message) IN
        /\ wire' = Append(wire, frame)
        /\ Scan(frame, Ascending)
    /\ UNCHANGED <<sprog, sphase, nText>>

\* the server sends a line whose payload is not JSON
SendMalformed ==
    /\ spc = "reading" /\ sphase = "frames"
    /\ Len(SelectSeq(wire, IsBad)) < MaxBad
    /\ wire' = Append(wire, MalformedFrame)
    /\ Scan(MalformedFrame, Ascending)
    /\ UNCHANGED <<sprog, sphase, nText>>

\* the server sends a content frame after `data: [DONE]`; the decoder goroutine
\* has returned and nothing reads the body any more
SendAfterDone ==
    /\ spc = "closed" /\ sphase = "done"
    /\ sphase' = "after"
    /\ UNCHANGED <<variant, calls, sprog, nText, spc, toolCallBuilders, textCh, toolCh,
                   errCh, wire>>
    /\ UNCHANGED notStream

NextText ==
    \/ SendText
    \/ SendMalformed
    \/ ScanFinish
    \/ ScanDone
    \/ ScanEOF
    \/ SendAfterDone

-----------------------------------------------------------------------------
(* Tool registration: agents.ToolRegistry and EnhancedZAIProvider           *)

ToolNames == {"t1", "t2"}

\* zhipu.Tool / providers.Tool: the k-th registration declares description k
\* and brings handler k; fname "" is a zhipu.Tool whose Function is nil
Tool(fname, k) == [name |-> fname, desc |-> k, handler |-> k]
NoTool == Tool("", 0)

\* number of declarations in ds that carry the name n
Declarations(ds, n) == Cardinality({k \in 1..Len(ds) : ds[k].name = n})

NotPresented == [at |-> 0 - 1, tools |-> <<>>]
NotExecuted == [at |-> 0 - 1, name |-> "", handler |-> 0]

InitReg ==
    /\ rkind \in {"ToolRegistry", "EnhancedZAIProvider"}
    /\ tools = <<>>
    /\ handlers = [n \in ToolNames |-> 0]
    /\ toolRegistry = [n \in ToolNames |-> NoTool]
    /\ nregs = 0
    /\ lastReg = [n \in ToolNames |-> 0]
    /\ declared = NotPresented
    /\ executed = NotExecuted

\* ToolRegistry.Register(tool, handler)
Register ==
    /\ rkind = "ToolRegistry"
    /\ nregs < MaxRegs
    /\ \E fname \in ToolNames \cup {""} :
        LET tool == Tool(fname, nregs + 1) IN
        /\ tools' = Append(tools, tool)
        /\ IF fname # ""
              THEN /\ handlers' = [handlers EXCEPT ![fname] = tool.handler]
                   /\ lastReg' = [lastReg EXCEPT ![fname] = nregs + 1]
              ELSE UNCHANGED <<handlers, lastReg>>
    /\ nregs' = nregs + 1
    /\ UNCHANGED <<rkind, toolRegistry, declared, executed>>
    /\ UNCHANGED notReg

\* EnhancedZAIProvider.RegisterTool(tool)
RegisterTool ==
    /\ rkind = "EnhancedZAIProvider"
    /\ nregs < MaxRegs
    /\ \E fname \in ToolNames :
        /\ toolRegistry' = [toolRegistry EXCEPT ![fname] = Tool(fname, nregs + 1)]
        /\ lastReg' = [lastReg EXCEPT ![fname] = nregs + 1]
    /\ nregs' = nregs + 1
    /\ UNCHANGED <<rkind, tools, handlers, declared, executed>>
    /\ UNCHANGED notReg

\* the keys of the map in one of the orders `range` can walk them
KeyOrders(keys) ==
    {o \in [1..Cardinality(keys) -> keys] :
        \A a, b \in 1..Cardinality(keys) : a # b => o[a] # o[b]}

\* RunWithTools: tools := c.registry.Tools(); req.Tools = tools
PresentTools ==
    /\ rkind = "ToolRegistry"
    /\ declared' = [at |-> nregs, tools |-> tools]
    /\ UNCHANGED <<rkind, tools, handlers, toolRegistry, nregs, lastReg, executed>>
    /\ UNCHANGED notReg

\* EnhancedZAIProvider.ChatStreamWithTools: one zhipu.Tool per entry of the
\* map, then p.RegisterTools(zhipuTools), which replaces p.tools
PresentRegistry ==
    /\ rkind = "EnhancedZAIProvider"
    /\ \E o \in KeyOrders({n \in ToolNames : toolRegistry[n] # NoTool}) :
        declared' = [at |-> nregs, tools |-> [k \in 1..Len(o) |-> toolRegistry[o[k]]]]
    /\ UNCHANGED <<rkind, tools, handlers, toolRegistry, nregs, lastReg, executed>>
    /\ UNCHANGED notReg

\* ToolRegistry.Execute(name) / the lookup of executeToolCall: the handler
\* found under the name runs (0: unknown tool)
ExecuteByName ==
    /\ \E n \in ToolNames :
        executed' = [at |-> nregs, name |-> n,
                     handler |-> IF rkind = "ToolRegistry" THEN handlers[n]
                                 ELSE toolRegistry[n].handler]
    /\ UNCHANGED <<rkind, tools, handlers, toolRegistry, nregs, lastReg, declared>>
    /\ UNCHANGED notReg

NextReg ==
    \/ Register
    \/ RegisterTool
    \/ PresentTools
    \/ PresentRegistry
    \/ ExecuteByName

-----------------------------------------------------------------------------
(* The decoder goroutine with its channels, and the consumers of the        *)
(* channels: ZAIProvider.ChatStream for Client.ChatStream, CollectStream    *)
(* for the two variants of Client.ChatStreamWithTools.                      *)

Channels == {"text", "tool", "err"}

\* make(chan ...): Client.ChatStream and the fixed-index ChatStreamWithTools
\* make unbuffered text and tool channels
Cap(c) ==
    CASE c = "err" -> errChCap
      [] c = "text" -> IF producer = "builder" THEN textChCap ELSE 0
      [] c = "tool" -> IF producer = "builder" THEN toolChCap ELSE 0

\* a value to send: the k-th of the response, on channel c
Item(c, k) == [ch |-> c, val |-> IF c = "text" THEN Txt(k) ELSE IdAt(k)]

\* the frames of a response body: each carries a content delta or a tool call
Scripts(pr) ==
    UNION {{sc \in [1..n -> {Item(c, k) : c \in {"text", "tool"}, k \in 1..n}] :
              \A k \in 1..n : sc[k] \in {Item("text", k), Item("tool", k)}} :
           n \in 0..MaxItems}

\* chatStreamInternal: `var currentToolCall *zhipu.ToolCall`, declared and
\* never assigned
currentToolCall == "nil"

\* executeToolCall(ctx, currentToolCall, handler) on a registered tool with
\* well-formed arguments: the tool_call event and the tool_result event
PendingToolEvents ==
    IF currentToolCall = "nil" THEN <<>>
    ELSE <<StreamEvent("tool_call", "t1", currentToolCall),
           StreamEvent("tool_result", "out", "")>>

\* p.history = append(messages, zhipu.Message{Role: "assistant", Content: fullResponse})
\* with messages := append(p.history, zhipu.Message{Role: "user", Content: input})
SaveToHistory(h, fullResponse) ==
    IF fullResponse # "" THEN h \o <<UserMsg("input"), AssistantMsg(fullResponse, <<>>)>>
    ELSE h

NoChan == [buf |-> <<>>, closed |-> FALSE]

InitChan ==
    /\ producer \in {"ChatStream", "builder", "fixed"}
    /\ gpc = "request"
    /\ script \in Scripts(producer)
    /\ ending \in {"done", "eof", "readerr"}
    /\ offer = <<>>
    /\ chans = [c \in Channels |-> NoChan]
    /\ cancelled = FALSE
    /\ sent = [c \in Channels |-> <<>>]
    /\ cpc = "select"
    /\ cnil = {}
    /\ contentBuilder = ""
    /\ resToolCalls = <<>>
    /\ resError = "nil"
    /\ cret = "none"
    /\ caller \in (IF producer # "ChatStream" THEN {"CollectStream"}
                   ELSE IF toolRegistry["t1"] # NoTool THEN {"chatStreamInternal"}
                   ELSE {"ChatStream", "chatStreamInternal"})
    /\ skipped = <<>>
    \* chatStreamInternal: if len(p.toolRegistry) > 0 { p.AddSystemMessage(...) }
    /\ stored = (IF toolRegistry["t1"] # NoTool THEN <<SystemMsg("tools")>> ELSE <<>>)
    /\ delivered = <<>>

\* errCh <- err; return: errCh has room for the one error a run can send
ReportError(e) ==
    /\ chans' = [chans EXCEPT !["err"].buf = Append(@, e)]
    /\ sent' = [sent EXCEPT !["err"] = Append(@, e)]
    /\ gpc' = "close_err"

\* the goroutine up to the scanner loop: c.httpClient.Do(httpReq) and the
\* status check; the request is bound to ctx
G_Request ==
    /\ gpc = "request"
    /\ \E outcome \in IF cancelled THEN {"do request"} ELSE {"do request", "api error", "ok"} :
        IF outcome = "ok"
          THEN gpc' = "scan" /\ UNCHANGED <<chans, sent>>
          ELSE ReportError(outcome)
    /\ UNCHANGED <<caller, producer, script, ending, offer, cancelled,
                   cpc, cnil, contentBuilder, resToolCalls, resError, cret>>
    /\ UNCHANGED <<skipped, stored, delivered>>
    /\ UNCHANGED notChan

\* one scanner.Scan() and the pass of the loop body it starts.  After the
\* cancellation the read of the body fails, possibly after lines that were
\* buffered before; ChatStreamWithTools looks at ctx.Done() in every pass.
G_Scan ==
    /\ gpc = "scan"
    /\ \/ /\ script # <<>>
          /\ CASE producer # "ChatStream" /\ cancelled ->
                    ReportError("context canceled") /\ UNCHANGED <<offer, script, skipped>>
               \* Client.ChatStream looks at delta.content and message.content
               \* only: a frame that carries a tool call sends nothing
               [] producer = "ChatStream" /\ Head(script).ch = "tool" ->
                    /\ skipped' = Append(skipped, Head(script))
                    /\ script' = Tail(script)
                    /\ UNCHANGED <<offer, gpc, chans, sent>>
               [] OTHER ->
                    /\ offer' = <<Head(script)>>
                    /\ script' = Tail(script)
                    /\ gpc' = "send"
                    /\ UNCHANGED <<chans, sent, skipped>>
       \/ /\ script = <<>> /\ ending \in {"done", "eof"}
          /\ IF producer # "ChatStream" /\ cancelled /\ ending = "done"
               THEN ReportError("context canceled")
               ELSE gpc' = "close_err" /\ UNCHANGED <<chans, sent>>
          /\ UNCHANGED <<offer, script, skipped>>
       \/ /\ (script = <<>> /\ ending = "readerr") \/ cancelled
          /\ ReportError(IF cancelled THEN "context canceled" ELSE "read error")
          /\ UNCHANGED <<offer, script, skipped>>
    /\ UNCHANGED <<stored, delivered>>
    /\ UNCHANGED <<caller, producer, ending, cancelled,
                   cpc, cnil, contentBuilder, resToolCalls, resError, cret>>
    /\ UNCHANGED notChan

\* textCh <- content / toolCh <- call on a buffered channel with room
G_Send ==
    /\ gpc = "send"
    /\ LET c == offer[1].ch IN
       /\ Len(chans[c].buf) < Cap(c)
       /\ chans' = [chans EXCEPT ![c].buf = Append(@, offer[1].val)]
       /\ sent' = [sent EXCEPT ![c] = Append(@, offer[1].val)]
    /\ offer' = <<>>
    /\ gpc' = "scan"
    /\ UNCHANGED <<caller, producer, script, ending, cancelled,
                   cpc, cnil, contentBuilder, resToolCalls, resError, cret>>
    /\ UNCHANGED <<skipped, stored, delivered>>
    /\ UNCHANGED notChan

\* the deferred calls run last-in first-out: close(errCh), then close(toolCh)
\* where there is one, then close(textCh)
G_Close ==
    /\ gpc \in {"close_err", "close_tool", "close_text"}
    /\ LET c == CASE gpc = "close_err" -> "err" [] gpc = "close_tool" -> "tool"
                   [] OTHER -> "text" IN
       chans' = [chans EXCEPT ![c].closed = TRUE]
    /\ gpc' = CASE gpc = "close_err" /\ producer # "ChatStream" -> "close_tool"
                [] gpc = "close_err" /\ producer = "ChatStream" -> "close_text"
                [] gpc = "close_tool" -> "close_text"
                [] OTHER -> "exited"
    /\ UNCHANGED <<caller, producer, script, ending, offer, cancelled, sent,
                   cpc, cnil, contentBuilder, resToolCalls, resError, cret>>
    /\ UNCHANGED <<skipped, stored, delivered>>
    /\ UNCHANGED notChan

\* the caller cancels the context given to the decoder
CancelStream ==
    /\ ~cancelled
    /\ cancelled' = TRUE
    /\ UNCHANGED <<caller, producer, gpc, script, ending, offer, chans, sent,
                   cpc, cnil, contentBuilder, resToolCalls, resError, cret>>
    /\ UNCHANGED <<skipped, stored, delivered>>
    /\ UNCHANGED notChan

\* a receive from c can proceed with a value: one is buffered, or the
\* goroutine is blocked sending on the unbuffered c
HasValue(c) ==
    \/ chans[c].buf # <<>>
    \/ (gpc = "send" /\ offer[1].ch = c /\ Cap(c) = 0)

\* a receive from c can proceed with the zero value: c is closed and drained
Drained(c) == chans[c].closed /\ chans[c].buf = <<>>

RecvVal(c) == IF chans[c].buf # <<>> THEN Head(chans[c].buf) ELSE offer[1].val

\* what receiving a value from c does to the channel and to the sender
Recv(c) ==
    IF chans[c].buf # <<>>
      THEN /\ chans' = [chans EXCEPT ![c].buf = Tail(@)]
           /\ UNCHANGED <<offer, gpc, sent>>
      ELSE /\ sent' = [sent EXCEPT ![c] = Append(@, offer[1].val)]
           /\ offer' = <<>>
           /\ gpc' = "scan"
           /\ UNCHANGED chans

CollectDone_TextOnly(nils) == "text" \in nils

\* if textCh == nil && toolCh == nil && errCh == nil { break }
CollectDone(nils) == nils = Channels

\* the channel variable c of CollectStream becomes nil
SetNil(c) ==
    /\ cnil' = cnil \cup {c}
    /\ cpc' = IF CollectDone(cnil \cup {c}) THEN "returned" ELSE "select"

\* CollectStream: case text, ok := <-textCh
CS_Text ==
    /\ producer # "ChatStream" /\ cpc = "select" /\ "text" \notin cnil
    /\ \/ /\ HasValue("text")
          /\ contentBuilder' = contentBuilder \o RecvVal("text")
          /\ Recv("text")
          /\ cpc' = IF CollectDone(cnil) THEN "returned" ELSE "select"
          /\ UNCHANGED cnil
       \/ /\ ~HasValue("text") /\ Drained("text")
          /\ SetNil("text")
          /\ UNCHANGED <<contentBuilder, chans, offer, gpc, sent>>
    /\ UNCHANGED <<caller, producer, script, ending, cancelled, resToolCalls, resError, cret>>
    /\ UNCHANGED <<skipped, stored, delivered>>
    /\ UNCHANGED notChan

\* CollectStream: case tc, ok := <-toolCh
CS_Tool ==
    /\ producer # "ChatStream" /\ cpc = "select" /\ "tool" \notin cnil
    /\ \/ /\ HasValue("tool")
          /\ resToolCalls' = Append(resToolCalls, RecvVal("tool"))
          /\ Recv("tool")
          /\ cpc' = IF CollectDone(cnil) THEN "returned" ELSE "select"
          /\ UNCHANGED cnil
       \/ /\ ~HasValue("tool") /\ Drained("tool")
          /\ SetNil("tool")
          /\ UNCHANGED <<resToolCalls, chans, offer, gpc, sent>>
    /\ UNCHANGED <<caller, producer, script, ending, cancelled, contentBuilder, resError, cret>>
    /\ UNCHANGED <<skipped, stored, delivered>>
    /\ UNCHANGED notChan

\* CollectStream: case err, ok := <-errCh: the variable becomes nil after the
\* first receive, a value or the close
CS_Err ==
    /\ producer # "ChatStream" /\ cpc = "select" /\ "err" \notin cnil
    /\ \/ /\ HasValue("err")
          /\ resError' = RecvVal("err")
          /\ Recv("err")
       \/ /\ ~HasValue("err") /\ Drained("err")
          /\ UNCHANGED <<resError, chans, offer, gpc, sent>>
    /\ SetNil("err")
    /\ UNCHANGED <<caller, producer, script, ending, cancelled, contentBuilder, resToolCalls, cret>>
    /\ UNCHANGED <<skipped, stored, delivered>>
    /\ UNCHANGED notChan

\* ZAIProvider.ChatStream and chatStreamInternal have the same select loop;
\* the first calls callback(text), the second handler(StreamEvent{...}).
\* case text, ok := <-textCh
ZS_Text ==
    /\ producer = "ChatStream" /\ cpc = "select"
    /\ \/ /\ HasValue("text")
          /\ contentBuilder' = contentBuilder \o RecvVal("text")
          /\ delivered' = Append(delivered, StreamEvent("text", RecvVal("text"), ""))
          /\ Recv("text")
          /\ UNCHANGED <<cpc, cret, stored>>
       \/ /\ ~HasValue("text") /\ Drained("text")
          /\ stored' = SaveToHistory(stored, contentBuilder)
          /\ delivered' = IF caller = "chatStreamInternal"
                            THEN delivered \o PendingToolEvents \o <<StreamEvent("done", "", "")>>
                            ELSE delivered
          /\ cret' = "nil"
          /\ cpc' = "returned"
          /\ UNCHANGED <<contentBuilder, chans, offer, gpc, sent>>
    /\ UNCHANGED skipped
    /\ UNCHANGED <<caller, producer, script, ending, cancelled, cnil, resToolCalls, resError>>
    /\ UNCHANGED notChan

\* case err := <-errCh with a value; from the closed channel the receive
\* gives nil and the loop goes round
ZS_Err ==
    /\ producer = "ChatStream" /\ cpc = "select"
    /\ HasValue("err")
    /\ cret' = RecvVal("err")
    /\ cpc' = "returned"
    /\ delivered' = IF caller = "chatStreamInternal"
                      THEN Append(delivered, StreamEvent("error", RecvVal("err"), ""))
                      ELSE delivered
    /\ Recv("err")
    /\ UNCHANGED <<skipped, stored>>
    /\ UNCHANGED <<caller, producer, script, ending, cancelled, cnil, contentBuilder,
                   resToolCalls, resError>>
    /\ UNCHANGED notChan

\* case <-ctx.Done(): return ctx.Err()
ZS_CtxDone ==
    /\ producer = "ChatStream" /\ cpc = "select"
    /\ cancelled
    /\ cret' = "context canceled"
    /\ cpc' = "returned"
    /\ UNCHANGED <<skipped, stored, delivered>>
    /\ UNCHANGED <<caller, producer, gpc, script, ending, offer, chans, cancelled, sent, cnil,
                   contentBuilder, resToolCalls, resError>>
    /\ UNCHANGED notChan

GoroutineStep == G_Request \/ G_Scan \/ G_Send \/ G_Close
ConsumerStep == CS_Text \/ CS_Tool \/ CS_Err \/ ZS_Text \/ ZS_Err \/ ZS_CtxDone

NextChan ==
    \/ G_Request
    \/ G_Scan
    \/ G_Send
    \/ G_Close
    \/ CancelStream
    \/ CS_Text
    \/ CS_Tool
    \/ CS_Err
    \/ ZS_Text
    \/ ZS_Err
    \/ ZS_CtxDone

\* the scheduler runs every runnable goroutine: the decoder and the consumer
ChanFairness == WF_vars(GoroutineStep) /\ WF_vars(ConsumerStep)

-----------------------------------------------------------------------------
(* The shell tools: AgentExecute and AgentExecuteBackground                 *)

\* values of timeout_seconds: absent (0), negative, around the defaults and
\* the maxima, and the largest 32-bit value
TimeoutInputs == {0 - 5, 0, 1, 30, 300, 301, 600, 3600, 3601, 2147483647}

ProcessIds == 1..MaxBg

ClampTimeout_NoCeiling(ts, def, max) == IF ts <= 0 THEN def ELSE ts

\* timeout := params.TimeoutSeconds
\* if timeout <= 0 { timeout = def }; if timeout > max { timeout = max }
ClampTimeout(ts, def, max) ==
    LET timeout == IF ts <= 0 THEN def ELSE ts
    IN  IF timeout > max THEN max ELSE timeout

Timeout(ts, t) == [timeout_seconds |-> ts, timeout |-> t]
NoTimeout == Timeout(0, 0)
NoKill == [process_id |-> 0, err |-> "none"]

InitShell ==
    /\ agentBackgroundProcesses = [id \in ProcessIds |-> "absent"]
    /\ agentBgCounter = 0
    /\ cmdRunning = {}
    /\ bgTimeout = NoTimeout
    /\ lastExec = NoTimeout
    /\ lastKill = NoKill

\* AgentExecute(argsJSON) with a command: the command has run, to its end or
\* to the timeout, when the function returns
AgentExecute ==
    /\ \E ts \in TimeoutInputs : lastExec' = Timeout(ts, ClampTimeout(ts, execDefault, execMax))
    /\ UNCHANGED <<agentBackgroundProcesses, agentBgCounter, cmdRunning, bgTimeout, lastKill>>
    /\ UNCHANGED notShell

\* agentStartBackgroundProcess: the entry is made and the goroutine that runs
\* the command under its timeout is started; the id ends in the counter
StartBackground ==
    /\ agentBgCounter < MaxBg
    /\ LET processID == agentBgCounter + 1 IN
       /\ agentBgCounter' = processID
       /\ agentBackgroundProcesses' = [agentBackgroundProcesses EXCEPT ![processID] = "running"]
       /\ cmdRunning' = cmdRunning \cup {processID}
       /\ \E ts \in TimeoutInputs :
            bgTimeout' = Timeout(ts, ClampTimeout(ts, bgDefault, bgMax))
    /\ UNCHANGED <<lastExec, lastKill>>
    /\ UNCHANGED notShell

\* cmd.Run() of a background goroutine returns: the command ended by itself
\* or its timeout killed it; the goroutine writes the outcome into its proc,
\* which the table may no longer hold
CommandEnds ==
    /\ \E id \in cmdRunning, st \in {"completed", "failed", "timeout"} :
        /\ cmdRunning' = cmdRunning \ {id}
        /\ agentBackgroundProcesses' =
              [agentBackgroundProcesses EXCEPT
                 ![id] = IF @ = "absent" THEN "absent" ELSE st]
    /\ UNCHANGED <<agentBgCounter, bgTimeout, lastExec, lastKill>>
    /\ UNCHANGED notShell

\* agentKillBackgroundProcess(processID): 0 stands for the empty process_id
KillBackground ==
    /\ \E id \in ProcessIds \cup {0} :
        CASE id = 0 ->
               /\ lastKill' = [process_id |-> id, err |-> "process_id is required"]
               /\ UNCHANGED agentBackgroundProcesses
          [] id # 0 /\ agentBackgroundProcesses[id] = "absent" ->
               /\ lastKill' = [process_id |-> id, err |-> "process not found"]
               /\ UNCHANGED agentBackgroundProcesses
          [] OTHER ->
               \* delete(agentBackgroundProcesses, processID): "We can't
               \* actually kill the process since we don't store the cmd
               \* reference"
               /\ agentBackgroundProcesses' = [agentBackgroundProcesses EXCEPT ![id] = "absent"]
               /\ lastKill' = [process_id |-> id, err |-> ""]
    /\ UNCHANGED <<agentBgCounter, cmdRunning, bgTimeout, lastExec>>
    /\ UNCHANGED notShell

NextShell ==
    \/ AgentExecute
    \/ StartBackground
    \/ CommandEnds
    \/ KillBackground

-----------------------------------------------------------------------------
(* The session manager (session.go) under the UI's addMessage (app.go)       *)

Seconds == 0..MaxTime
SessionObjs == 1..MaxSessions

\* time.Now().Format("20060102150405"): the clock cut to the second
generateID == now

RECURSIVE SumTo(_, _)
SumTo(f, n) == IF n = 0 THEN 0 ELSE f[n] + SumTo(f, n - 1)
TotalMessages == SumTo(sessMessages, MaxSessions)

\* NewSessionManager on an empty session directory
InitSess ==
    /\ now = 0
    /\ sessions = [id \in Seconds |-> 0]
    /\ nsessions = 0
    /\ sessionID = [o \in SessionObjs |-> 0]
    /\ sessMessages = [o \in SessionObjs |-> 0]
    /\ current = 0
    /\ autoSaveN = DefaultAutoSaveN
    /\ messageCount = 0
    /\ addedSinceSave = 0

\* a second passes
Tick ==
    /\ now < MaxTime
    /\ now' = now + 1
    /\ UNCHANGED <<sessions, nsessions, sessionID, sessMessages, current, autoSaveN,
                   messageCount, addedSinceSave>>
    /\ UNCHANGED notSess

SetAutoSaveN ==
    /\ \E n \in 0..MaxN : autoSaveN' = n
    /\ UNCHANGED <<now, sessions, nsessions, sessionID, sessMessages, current,
                   messageCount, addedSinceSave>>
    /\ UNCHANGED notSess

\* CreateSession(name, model); every caller makes the result its
\* currentSession
CreateSession ==
    /\ nsessions < MaxSessions
    /\ LET session == nsessions + 1 IN
       /\ nsessions' = session
       /\ sessionID' = [sessionID EXCEPT ![session] = generateID]
       /\ sessions' = [sessions EXCEPT ![generateID] = session]
       /\ current' = session
    /\ messageCount' = 0
    /\ UNCHANGED <<now, sessMessages, autoSaveN, addedSinceSave>>
    /\ UNCHANGED notSess

\* ImportSession(path) of a readable file holding n messages: the session
\* gets a new ID, goes into the table and is saved; sm.current stays
ImportSession ==
    /\ nsessions < MaxSessions
    /\ \E n \in 0..1 :
        /\ TotalMessages + n <= MaxAdds
        /\ LET session == nsessions + 1 IN
           /\ nsessions' = session
           /\ sessionID' = [sessionID EXCEPT ![session] = generateID]
           /\ sessions' = [sessions EXCEPT ![generateID] = session]
           /\ sessMessages' = [sessMessages EXCEPT ![session] = n]
    /\ messageCount' = 0
    /\ addedSinceSave' = 0
    /\ UNCHANGED <<now, current, autoSaveN>>
    /\ UNCHANGED notSess

\* sm.AddMessage: the value returned
ShouldSave(N, count) == N > 0 /\ count >= N

\* Model.addMessage(role, content): AddMessage, then Save(m.currentSession)
\* when it returned true
addMessage ==
    /\ current # 0
    /\ TotalMessages < MaxAdds
    /\ sessMessages' = [sessMessages EXCEPT ![current] = @ + 1]
    /\ IF ShouldSave(autoSaveN, messageCount + 1)
         THEN messageCount' = 0 /\ addedSinceSave' = 0
         ELSE messageCount' = messageCount + 1 /\ addedSinceSave' = addedSinceSave + 1
    /\ UNCHANGED <<now, sessions, nsessions, sessionID, current, autoSaveN>>
    /\ UNCHANGED notSess

\* Save(m.currentSession) asked for by the user
Save ==
    /\ current # 0
    /\ messageCount' = 0
    /\ addedSinceSave' = 0
    /\ UNCHANGED <<now, sessions, nsessions, sessionID, sessMessages, current, autoSaveN>>
    /\ UNCHANGED notSess

ResetAutoSaveCounter ==
    /\ messageCount' = 0
    /\ UNCHANGED <<now, sessions, nsessions, sessionID, sessMessages, current, autoSaveN,
                   addedSinceSave>>
    /\ UNCHANGED notSess

NextSess ==
    \/ Tick
    \/ SetAutoSaveN
    \/ CreateSession
    \/ ImportSession
    \/ addMessage
    \/ Save
    \/ ResetAutoSaveCounter

-----------------------------------------------------------------------------
(* Specifications *)

\* the components at rest
IdleLoop == InitLoop /\ fn = "RunWithTools" /\ registry = {}
IdleStream == InitStream /\ variant = "builder" /\ calls = <<StreamCall(1, 0)>>
IdleReg == InitReg /\ rkind = "ToolRegistry"
IdleChan == InitChan /\ producer = "ChatStream" /\ script = <<>> /\ ending = "done"
            /\ caller = "ChatStream"
IdleShell == InitShell
IdleSess == InitSess

\* EnhancedZAIProvider after RegisterTool(t1) and the declarations that
\* ChatStreamWithTools has made of its registry
OneToolRegistered ==
    /\ rkind = "EnhancedZAIProvider"
    /\ tools = <<>>
    /\ handlers = [n \in ToolNames |-> 0]
    /\ toolRegistry = [n \in ToolNames |-> IF n = "t1" THEN Tool("t1", 1) ELSE NoTool]
    /\ nregs = 1
    /\ lastReg = [n \in ToolNames |-> IF n = "t1" THEN 1 ELSE 0]
    /\ declared = [at |-> 1, tools |-> <<Tool("t1", 1)>>]
    /\ executed = NotExecuted

LoopInit == InitLoop /\ InitMgr /\ IdleStream /\ IdleReg /\ IdleChan /\ IdleShell /\ IdleSess
SpecLoop == LoopInit /\ [][NextLoop]_vars

CancelInit == InitLoop /\ InitMgr /\ IdleStream /\ IdleReg /\ IdleChan /\ IdleShell /\ IdleSess
SpecCancel == CancelInit /\ [][NextCancel]_vars

MgrInit == InitMgr /\ IdleLoop /\ IdleStream /\ IdleReg /\ IdleChan /\ IdleShell /\ IdleSess
SpecMgr == MgrInit /\ [][NextMgr]_vars

\* Start, Stop, Call, List and Status over child processes that stay up until
\* they are stopped (a child that exits by itself is in NextMgr)
NextOps ==
    \/ \E t \in Threads : Invoke(t)
    \/ \E t \in Threads : Start(t)
    \/ \E t \in Threads : StopAcquire(t)
    \/ \E t \in Threads : StopKill(t)
    \/ \E t \in Threads : CallLookup(t)
    \/ \E t \in Threads : CallCheck(t)
    \/ \E t \in Threads : CallLock(t)
    \/ \E t \in Threads : CallWrite(t)
    \/ \E t \in Threads : CallRead(t)
    \/ \E p \in 1..MaxProcs : ProviderRespond(p)
    \/ \E t \in Threads : InvokeQuery(t)
    \/ \E t \in Threads : Query(t)

\* a live child process answers every request it has received
ProviderFairness == \A p \in 1..MaxProcs : WF_vars(ProviderRespond(p))

\* the five operations with fair goroutines and answering providers
SpecOpsLive == MgrInit /\ [][NextOps]_vars /\ MgrFairness /\ ProviderFairness

\* Start, Stop and Call alone, every runnable goroutine going on
SpecCallLive == MgrInit /\ [][NextMgr]_vars /\ MgrFairness

SpecMgrLive == MgrInit /\ [][NextMgrLive]_vars /\ MgrFairness

StreamInit == InitStream /\ IdleLoop /\ InitMgr /\ IdleReg /\ IdleChan /\ IdleShell /\ IdleSess
SpecStream == StreamInit /\ [][NextStream]_vars

TextInit == InitText /\ IdleLoop /\ InitMgr /\ IdleReg /\ IdleChan /\ IdleShell /\ IdleSess
SpecText == TextInit /\ [][NextText]_vars

RegInit == InitReg /\ IdleLoop /\ InitMgr /\ IdleStream /\ IdleChan /\ IdleShell /\ IdleSess
SpecReg == RegInit /\ [][NextReg]_vars

ChanInit == IdleLoop /\ InitMgr /\ IdleStream /\ (IdleReg \/ OneToolRegistered) /\ InitChan /\ IdleShell /\ IdleSess
SpecChan == ChanInit /\ [][NextChan]_vars
SpecChanLive == ChanInit /\ [][NextChan]_vars /\ ChanFairness

ShellInit == InitShell /\ IdleLoop /\ InitMgr /\ IdleStream /\ IdleReg /\ IdleChan /\ IdleSess
SpecShell == ShellInit /\ [][NextShell]_vars

SessInit == InitSess /\ IdleLoop /\ InitMgr /\ IdleStream /\ IdleReg /\ IdleChan /\ IdleShell
SpecSess == SessInit /\ [][NextSess]_vars

-----------------------------------------------------------------------------
(* Properties of the stream decoder *)

RECURSIVE RunFrames(_, _, _)
\* the decoder run over a whole sequence of frames
RunFrames(v, st, frames) ==
    IF frames = <<>> THEN st
    ELSE RunFrames(v, ProcessFrame(v, st, Head(frames), Ascending), Tail(frames))

\* the same response with each call whole in one frame of its own
WholeStream(cs) ==
    [j \in 1..Len(cs) |->
        DataFrame("", <<Delta(j - 1, cs[j].id, cs[j].name, Cat(cs[j].chunks))>>, "")]
    \o <<DataFrame("", <<>>, "tool_calls"), DoneFrame>>

WholeResult(v, cs) ==
    RunFrames(v, [bs |-> NoBuilders, text |-> <<>>, tools |-> <<>>, closed |-> FALSE],
              WholeStream(cs)).tools

Range(f) == {f[x] : x \in DOMAIN f}

StreamEnded == spc = "closed" /\ sphase = "done"

\* C4: fragmentation invariance.  When the stream has ended with [DONE], the
\* tool calls sent on toolCh are the ones (same ids, names, argument texts,
\* same number) the decoder sends when each call arrives whole in one frame,
\* however the calls were split into fragments and interleaved.
C4_FragmentationInvariance ==
    (StreamEnded /\ NoResend) =>
        /\ Range(toolCh) = Range(WholeResult(variant, calls))
        /\ Len(toolCh) = Len(WholeResult(variant, calls))

\* the same for the builder variant alone
C4_BuilderVariantInvariant == variant = "builder" => C4_FragmentationInvariance

\* the call of the response that an emitted tool call belongs to
IndexOf(tc) == CHOOSE j \in CallIdx : tc.id \in {SId(j), AltId(j)}

\* the call assembled by "first non-empty id, first non-empty name, arguments
\* concatenated in arrival order" from the fragments of call j
FirstWins(j) ==
    [id |-> calls[j].id, type |-> "function", name |-> calls[j].name,
     arguments |-> Cat(calls[j].chunks)]

\* C18: every tool call the decoder has emitted when the stream has ended
\* carries the first non-empty id and the first non-empty name received for
\* its index, and as arguments all chunks of that index in arrival order.
C18_FirstIdAndNameWin ==
    StreamEnded =>
        \A n \in 1..Len(toolCh) :
            /\ \E j \in 1..Len(calls) : toolCh[n].id \in {SId(j), AltId(j)}
            /\ toolCh[n] = FirstWins(IndexOf(toolCh[n]))

\* the same for the builder variant when no id or name arrives twice
C18_BuilderSingleIdAndName ==
    (variant = "builder" /\ NoResend) => C18_FirstIdAndNameWin

\* the builder variant alone, fragments with a second id or name included
C18_BuilderVariant == variant = "builder" => C18_FirstIdAndNameWin

\* C19: in the builder variant the tool calls on toolCh are in ascending order
\* of their stream index.
C19_EmittedInIndexOrder ==
    variant = "builder" =>
        \A a, b \in 1..Len(toolCh) :
            a < b => IndexOf(toolCh[a]) <= IndexOf(toolCh[b])

\* the step reads a turn-completion signal: finish reason, [DONE] or end of input
TurnCompletes == sphase' # sphase /\ sphase' \in {"finished", "done", "eof"}

\* what the step sent on toolCh
Emitted == SubSeq(toolCh', Len(toolCh) + 1, Len(toolCh'))

CompleteBuilders == {k \in DOMAIN toolCallBuilders :
                       toolCallBuilders[k].present /\ complete(toolCallBuilders[k])}

\* C20: in the builder variant, a step that reads a turn-completion signal
\* sends every builder that has an id and a name exactly once and sends
\* nothing else; a finish reason leaves the decoder reading.
C20_CompleteBuildersFlushed ==
    [][(variant = "builder" /\ TurnCompletes) =>
          /\ \A k \in CompleteBuilders :
                Cardinality({n \in 1..Len(Emitted) : Emitted[n] = build(toolCallBuilders[k])}) = 1
          /\ Len(Emitted) = Cardinality(CompleteBuilders)
          /\ sphase' = "finished" => spc' = "reading"]_vars

\* the same for the finish reason and [DONE] alone
C20_FlushedAtFinishAndDone ==
    [][(variant = "builder" /\ TurnCompletes /\ sphase' # "eof") =>
          /\ \A k \in CompleteBuilders :
                Cardinality({n \in 1..Len(Emitted) : Emitted[n] = build(toolCallBuilders[k])}) = 1
          /\ Len(Emitted) = Cardinality(CompleteBuilders)
          /\ sphase' = "finished" => spc' = "reading"]_vars

-----------------------------------------------------------------------------
(* Properties of the decoders on a text response *)

\* every frame has the streaming shape: no message content
StreamingShape == \A k \in 1..Len(wire) : wire[k].message = ""

\* the non-empty content deltas of the well-formed frames, in stream order
ValidContents(w) ==
    LET cs == [k \in 1..Len(w) |-> IF IsData(w[k]) THEN w[k].content ELSE ""]
    IN SelectSeq(cs, LAMBDA c : c # "")

\* C15: a frame whose payload is not JSON is skipped: the consumer has
\* received exactly the content of the well-formed frames sent so far, those
\* before and those after the malformed one, in stream order; no error was
\* sent for it and the decoder goes on reading.
C15_MalformedFrameSkipped ==
    StreamingShape =>
        /\ textCh = ValidContents(wire)
        /\ sphase = "frames" => (spc = "reading" /\ errCh = <<>>)

\* a malformed frame between two content frames, both delivered
C15_Witness ==
    /\ Len(wire) = 3
    /\ IsBad(wire[2])
    /\ StreamingShape
    /\ textCh = <<Txt(1), Txt(3)>>
    /\ spc = "reading"

\* C16: a body that ends without `data: [DONE]` makes the decoder send an
\* error before it closes its channels.
C16_MissingTerminatorIsError == sphase = "eof" => errCh # <<>>

\* C17: after well-formed content frames and `data: [DONE]` the consumer has
\* received exactly the non-empty content deltas, in order; the decoder has
\* returned without sending an error; a frame sent after the terminator is
\* not delivered.
C17_TerminatorStopsCleanly ==
    (sphase \in {"done", "after"} /\ StreamingShape /\ \A k \in 1..Len(wire) : IsData(wire[k])) =>
        /\ textCh = SelectSeq([k \in 1..Len(wire) |-> wire[k].content], LAMBDA c : c # "")
        /\ Cat(textCh) = Cat([k \in 1..Len(wire) |-> wire[k].content])
        /\ errCh = <<>>
        /\ spc = "closed"

\* an empty and a non-empty delta, the terminator, and a frame after it
C17_Witness ==
    /\ sphase = "after"
    /\ Len(wire) = 2 /\ StreamingShape
    /\ wire[1].content = "" /\ IsData(wire[1])
    /\ textCh = <<Txt(2)>>
    /\ errCh = <<>>

-----------------------------------------------------------------------------
(* Properties of the decoder goroutine and the consumers *)

\* C23: after the caller's context is cancelled the decoder goroutine stops
\* reading, closes its channels and terminates, whatever its consumer does.
C23_DecoderStopsAfterCancel == cancelled ~> (gpc = "exited")

\* the same for the buffered ChatStreamWithTools, within its buffers
C23_BufferedDecoderStops == (producer = "builder" /\ cancelled) ~> (gpc = "exited")

\* C26: when CollectStream has returned, the three channels are closed, its
\* Content is the concatenation of all text sent, in order, its ToolCalls are
\* all tool calls sent, in order, and its Error is the error sent, nil if
\* none was.
C26_CollectStreamComplete ==
    (producer # "ChatStream" /\ cpc = "returned") =>
        /\ \A c \in Channels : chans[c].closed /\ chans[c].buf = <<>>
        /\ gpc = "exited"
        /\ contentBuilder = Cat(sent["text"])
        /\ resToolCalls = sent["tool"]
        /\ resError = (IF sent["err"] = <<>> THEN "nil" ELSE sent["err"][1])

\* a text, a tool call and a read error, all collected
C26_Witness ==
    /\ producer = "fixed" /\ cpc = "returned"
    /\ contentBuilder = Txt(1)
    /\ resToolCalls = <<IdAt(2)>>
    /\ resError = "read error"

\* C27: when the decoder reported an error, ZAIProvider.ChatStream returns
\* that error (or the context's, after a cancellation), never nil.
C27_StreamErrorReturned ==
    (caller = "ChatStream" /\ cpc = "returned" /\ sent["err"] # <<>>) =>
        cret \in {sent["err"][1], "context canceled"}

\* when the consumer takes the error before the text channel is closed it
\* does return it: the error case of the select returns what it received
C27_ErrorCaseReturnsError ==
    [][(caller = "ChatStream" /\ cpc = "select" /\ cpc' = "returned"
        /\ chans'["err"].buf # chans["err"].buf) => cret' = sent["err"][1]]_vars

\* the positions in the delivered events of the events of one type
EventsOf(type) == {k \in 1..Len(delivered) : delivered[k].type = type}

\* the response body requested a tool call: one of its frames carried one
ToolCallRequested == \E k \in 1..Len(skipped) : skipped[k].ch = "tool"

\* C32: when the streamed response requests a call to a registered tool and
\* chatStreamInternal, called by ChatStreamWithTools, ends with the done
\* event, the handler has been given a tool_call event and after it a
\* tool_result event, both before the done event.
C32_ToolCallEventsBeforeDone ==
    (caller = "chatStreamInternal" /\ cpc = "returned" /\ cret = "nil"
     /\ toolRegistry["t1"] # NoTool /\ ToolCallRequested) =>
        \E a \in EventsOf("tool_call"), b \in EventsOf("tool_result"), c \in EventsOf("done") :
            a < b /\ b < c

\* what the stream does deliver: text events, in the order and with the
\* content of the texts the decoder sent and the handler received, and the
\* terminal event; a tool-call frame leaves no event
C32_OnlyTextAndTerminalEvents ==
    caller = "chatStreamInternal" =>
        /\ \A k \in 1..Len(delivered) : delivered[k].type \in {"text", "done", "error"}
        /\ Cat([k \in 1..Cardinality(EventsOf("text")) |-> delivered[k].content]) = contentBuilder

\* C39: when the streaming request of ZAIProvider.ChatStream has failed (the
\* decoder reported an error), the provider's stored history is what it was
\* before the call.
C39_FailedRequestKeepsHistory ==
    (caller = "ChatStream" /\ cpc = "returned" /\ sent["err"] # <<>>) => stored = <<>>

\* whenever ChatStream returns an error the history is what it was
C39_ErrorReturnKeepsHistory ==
    (caller = "ChatStream" /\ cpc = "returned" /\ cret # "nil") => stored = <<>>

\* the terminal events: done and error
Terminals == EventsOf("done") \cup EventsOf("error")

\* C40: when chatStreamInternal has returned, the handler has been given
\* exactly one terminal event, it is the last event, and it is the done
\* event when nil was returned and an error event when an error was,
\* the context's error included.
C40_ExactlyOneTerminalEvent ==
    (caller = "chatStreamInternal" /\ cpc = "returned") =>
        /\ Terminals = {Len(delivered)}
        /\ delivered # <<>>
        /\ delivered[Len(delivered)].type = (IF cret = "nil" THEN "done" ELSE "error")

\* every return but the one on ctx.Done() gives its terminal event, once and last
C40_TerminalEventUnlessCancelled ==
    /\ caller = "chatStreamInternal" => Terminals \subseteq {Len(delivered)}
    /\ (caller = "chatStreamInternal" /\ cpc = "returned" /\ cret # "context canceled") =>
        /\ Terminals = {Len(delivered)}
        /\ delivered[Len(delivered)].type = (IF cret = "nil" THEN "done" ELSE "error")
    /\ (caller = "chatStreamInternal" /\ cpc = "select") => Terminals = {}

-----------------------------------------------------------------------------
(* Properties of tool registration *)

\* C21: re-registering a name replaces the earlier registration.  The
\* declarations presented to the model after the registrations contain
\* exactly one declaration for every registered name, and executing a
\* registered name runs the handler of its most recent registration.
C21_ReRegisterReplaces ==
    /\ declared.at = nregs =>
          \A n \in ToolNames : lastReg[n] # 0 => Declarations(declared.tools, n) = 1
    /\ (executed.at = nregs /\ lastReg[executed.name] # 0) =>
          executed.handler = lastReg[executed.name]

\* the same for EnhancedZAIProvider alone, and the handler half for both
C21_MapRegistryReplaces ==
    /\ rkind = "EnhancedZAIProvider" => C21_ReRegisterReplaces
    /\ (executed.at = nregs /\ lastReg[executed.name] # 0) =>
          executed.handler = lastReg[executed.name]

-----------------------------------------------------------------------------
(* Properties of the Manager *)

InCall(t, p) == tproc[t] = p /\ tpc[t] \in {"call_write", "call_read"}

\* requests written to p and not yet answered to their caller
Outstanding(p) == Len(procs[p].inq) + Len(procs[p].outq)

\* C3: calls on one process are serialized.  At most one goroutine is between
\* proc.mu.Lock() and its return; at most one request is outstanding, and it
\* is the one of the goroutine reading; a goroutine about to write finds no
\* request or response of another caller in the pipes; and every response a
\* Call returns is the one produced for its own request.
C3_CallsSerialized ==
    /\ \A p \in 1..MaxProcs :
        /\ Cardinality({t \in Threads : InCall(t, p)}) <= 1
        /\ Outstanding(p) <= 1
        /\ \A t \in Threads :
            /\ (InCall(t, p) /\ tpc[t] = "call_write") => Outstanding(p) = 0
            /\ (InCall(t, p) /\ tpc[t] = "call_read") =>
                  /\ \A k \in 1..Len(procs[p].inq) : procs[p].inq[k] = t
                  /\ \A k \in 1..Len(procs[p].outq) : procs[p].outq[k].tag = t
    /\ \A t \in Threads :
          (tret[t].op = "call" /\ tret[t].kind \in {"ok", "remote_err"}) => tret[t].tag = t

\* two goroutines called the same process; one has its answer, the other is
\* waiting for its own
C3_Witness ==
    \E t, u \in Threads :
        /\ t # u
        /\ tret[t] = Ret("call", "ok", t)
        /\ tpc[u] = "call_read"
        /\ procs[tproc[u]].outq = <<Line(u, "result", tproc[u])>>

StartReturns(t) == tpc[t] = "start" /\ tpc'[t] = "idle"

\* C9: Start on a name whose process is running returns the already-running
\* error and changes neither the table nor any process; Start on a name that
\* is not running, when the launch succeeds, puts a new running process
\* under that name and touches no other entry.
C9_StartContract ==
    [][\A t \in Threads :
         StartReturns(t) =>
            LET n == targ[t] IN
            IF IsRunning(n)
              THEN /\ tret'[t].kind = "already_running"
                   /\ servers' = servers
                   /\ procs' = procs
              ELSE /\ tret'[t].kind \in {"ok", "launch_err"}
                   /\ tret'[t].kind = "launch_err" => (servers' = servers /\ procs' = procs)
                   /\ tret'[t].kind = "ok" =>
                        /\ servers'[n] # 0
                        /\ servers'[n] # servers[n]
                        /\ procs'[servers'[n]] = NewProcess(n)
                        /\ procs[servers'[n]] = NoProc
                        /\ \A o \in ServerNames \ {n} : servers'[o] = servers[o]
                        /\ \A q \in 1..MaxProcs : q # servers'[n] => procs'[q] = procs[q]]_vars

\* one goroutine was refused on a running name, another restarted a stopped one
C9_Witness ==
    \E t, u \in Threads :
        /\ tret[t] = Ret("start", "already_running", 0)
        /\ tret[u] = Ret("start", "ok", 0)
        /\ nprocs = 2
        /\ \E n \in ServerNames : servers[n] = 2 /\ procs[1].name = n /\ IsRunning(n)

\* the configured name was stopped: its entry is there and not running
IsStopped(n) == servers[n] # 0 /\ ~procs[servers[n]].Running

\* C11: Stop followed by Start on the same name.  Start on a stopped name is
\* never refused as already running; when the launch succeeds the name maps
\* to a new Process in a slot never used before, running, with its lock free
\* and both pipes empty, and the stopped instance is left as it was.  A Call
\* takes the instance the table holds at its lookup, and the response a Call
\* returns was written by the very instance it called, for its own request.
C11_RestartIsFresh ==
    [][\A t \in Threads :
         /\ (StartReturns(t) /\ IsStopped(targ[t])) =>
               LET n == targ[t]
                   old == servers[n]
                   new == servers'[n] IN
               /\ tret'[t].kind \in {"ok", "launch_err"}
               /\ tret'[t].kind = "ok" =>
                    /\ new # old
                    /\ procs[new] = NoProc
                    /\ procs'[new].name = n
                    /\ procs'[new].Running /\ procs'[new].stdinOpen /\ procs'[new].alive
                    /\ procs'[new].mu = 0
                    /\ procs'[new].inq = <<>> /\ procs'[new].outq = <<>>
                    /\ procs'[old] = procs[old]
         /\ (tpc[t] = "call" /\ tpc'[t] = "call_check") => tproc'[t] = servers[targ[t]]
         /\ (tpc[t] = "call_read" /\ tpc'[t] = "idle" /\ tret'[t].kind \in {"ok", "remote_err"}) =>
               /\ procs[tproc[t]].outq # <<>>
               /\ Head(procs[tproc[t]].outq).by = tproc[t]
               /\ Head(procs[tproc[t]].outq).tag = t
               /\ procs'[tproc[t]].outq = <<>>]_vars

\* after Stop and Start of "s1" a goroutine's Call on the restarted name has
\* its answer from the second instance waiting in that instance's pipe
C11_Witness ==
    \E u \in Threads :
        /\ nprocs = 2 /\ servers["s1"] = 2
        /\ ~procs[1].Running /\ ~procs[1].stdinOpen
        /\ tpc[u] = "call_read" /\ tproc[u] = 2
        /\ procs[2].outq = <<Line(u, "result", 2)>>

StopReturns(t) == tpc[t] \in {"stop", "stop_kill"} /\ tpc'[t] = "idle"

C24_TimeoutBoundsCall ==
    \A t \in Threads : (tctx[t] = "expired") ~> (tpc[t] = "idle")

\* the timeout is honoured only at the entry: a context that is done at the
\* select makes CallWithTimeout return the deadline error without calling
C24_ExpiredAtEntryReturns ==
    [][\A t \in Threads :
         (tpc[t] = "timed" /\ tctx[t] = "expired" /\ tpc'[t] # "timed") =>
            (tpc'[t] = "idle" /\ tret'[t] = Ret("call", "deadline", 0))]_vars

\* C25: only a Call waiting for its response may block for ever: every other
\* operation in progress eventually returns, or is a Call that has written
\* its request and waits for the response.
C25_OnlyHungCallBlocks ==
    \A t \in Threads :
        (tpc[t] \notin {"idle", "call_read"}) ~> (tpc[t] \in {"idle", "call_read"})

\* Start, Status, List and the lookup of Call and Stop do not wait for a
\* process lock: they wait only for Manager.mu
C25_OnlyManagerLockWaited ==
    \A t \in Threads :
        (tpc[t] \in {"start", "status", "list", "call", "stop"} /\ mmu = 0) =>
            ENABLED ThreadStep(t)

CallReturns(t) ==
    tpc[t] \in {"call_check", "call_write", "call_read"} /\ tpc'[t] = "idle"

\* C10: a Call whose name is not registered or whose process is not running
\* returns the not-running error and does not reach the write to the pipe,
\* also when a Stop on the same name runs concurrently.
C10_CallNeedsRunningProcess ==
    [][\A t \in Threads :
         LET down == tproc[t] = 0 \/ ~procs[tproc[t]].Running IN
         /\ (CallReturns(t) /\ down) => tret'[t].kind = "not_running"
         /\ down => ~(tpc[t] = "call_write" /\ tpc'[t] # "call_write")]_vars

\* goroutine t is inside Call, past the lookup, on a process that has exited
OnDeadProcess(t) ==
    /\ tpc[t] \in {"call_check", "call_lock", "call_write"}
    /\ tproc[t] # 0
    /\ ~procs[tproc[t]].alive

\* C31: a Call that has looked up a process which has exited (by itself or
\* otherwise) does not stay inside Call for ever, and the only way it leaves
\* is by returning an error, never a result
C31_CallOnExitedProcessFails ==
    /\ [][\A t \in Threads :
            (OnDeadProcess(t) /\ ~OnDeadProcess(t)')
                => /\ tpc'[t] = "idle"
                   /\ tret'[t].op = "call"
                   /\ tret'[t].kind \in {"not_running", "write_err", "read_err"}]_vars
    /\ \A t \in Threads : []<>(~OnDeadProcess(t))

\* the only process ever started exited by itself, unnoticed (Running is
\* still set), and a Call on it has come back with the write error
C31_Witness ==
    /\ nprocs = 1
    /\ procs[1].Running /\ ~procs[1].alive /\ procs[1].stdinOpen
    /\ \E t \in Threads : tret[t] = Ret("call", "write_err", 0)

\* goroutine u holds proc.mu of process p inside Call: from before it writes
\* its request until it has read the response
InsideCall(u, p) == tpc[u] \in {"call_write", "call_read"} /\ tproc[u] = p

\* C37: Stop closes the input stream and kills the process only when no Call
\* on that process is between taking proc.mu and having read its response
C37_StopExcludesCall ==
    [][\A t \in Threads :
          (tpc[t] = "stop_kill" /\ ~procs'[tproc[t]].stdinOpen) =>
              \A u \in Threads : ~InsideCall(u, tproc[t])]_vars

\* a Stop waits for proc.mu while a Call has written and waits for the answer
C37_Witness ==
    \E t, u \in Threads :
        /\ tpc[t] = "stop_kill"
        /\ tpc[u] = "call_read" /\ tproc[u] = tproc[t]
        /\ procs[tproc[t]].inq = <<u>>

\* C38: with providers that answer every request they receive and fair
\* goroutines, every Start, Stop, Call, List and Status returns
C38_EveryOperationReturns == \A t \in Threads : []<>(tpc[t] = "idle")

\* a Stop holds the manager lock and waits for proc.mu, the Call that holds
\* proc.mu has its answer ready, and the Stop of before has come back
C38_Witness ==
    \E t, u \in Threads :
        /\ tpc[t] = "stop_kill" /\ mmu = t
        /\ tpc[u] = "call_read" /\ tproc[u] = tproc[t]
        /\ procs[tproc[t]].outq # <<>>
        /\ nprocs = 2

-----------------------------------------------------------------------------
(* Properties of the shell tools *)

Min(a, b) == IF a < b THEN a ELSE b

\* C33: AgentExecute runs its command with a timeout of 30 seconds when
\* timeout_seconds <= 0 and of min(timeout_seconds, 300) seconds otherwise,
\* always between 1 and 300; the background start uses 600 when
\* timeout_seconds <= 0 and min(timeout_seconds, 3600) otherwise.
C33_TimeoutClamped ==
    /\ lastExec # NoTimeout =>
          /\ lastExec.timeout = (IF lastExec.timeout_seconds <= 0 THEN 30
                                 ELSE Min(lastExec.timeout_seconds, 300))
          /\ lastExec.timeout \in 1..300
    /\ bgTimeout # NoTimeout =>
          /\ bgTimeout.timeout = (IF bgTimeout.timeout_seconds <= 0 THEN 600
                                  ELSE Min(bgTimeout.timeout_seconds, 3600))
          /\ bgTimeout.timeout \in 1..3600

\* a synchronous command asked for 301 seconds got 300 and a background one
\* asked for the largest value got 3600
C33_Witness ==
    /\ lastExec = Timeout(301, 300)
    /\ agentBgCounter > 0
    /\ bgTimeout = Timeout(2147483647, 3600)

\* C34: a successful 'kill' of process_id terminates the process: after it
\* the command of that process is no longer running.
C34_KillTerminatesProcess ==
    [][\A id \in ProcessIds :
          (lastKill' = [process_id |-> id, err |-> ""]
           /\ agentBackgroundProcesses[id] # agentBackgroundProcesses'[id])
              => id \notin cmdRunning']_vars

\* what a successful 'kill' does: the entry is gone from the table and the
\* command is left as it was
C34_KillOnlyForgets ==
    [][\A id \in ProcessIds :
          (lastKill' = [process_id |-> id, err |-> ""]
           /\ agentBackgroundProcesses[id] # agentBackgroundProcesses'[id])
              => /\ agentBackgroundProcesses'[id] = "absent"
                 /\ cmdRunning' = cmdRunning]_vars

-----------------------------------------------------------------------------
(* Properties of the session manager *)

Stored == {id \in Seconds : sessions[id] # 0}

\* C35: CreateSession and ImportSession give the new session an ID that no
\* session in the manager has, so the table grows by one entry and no
\* existing entry is replaced, also when two sessions are made within the
\* same second.
C35_NewSessionGetsFreshID ==
    [][nsessions' # nsessions =>
          /\ sessionID'[nsessions'] \notin Stored
          /\ Cardinality(Stored') = Cardinality(Stored) + 1
          /\ \A id \in Stored : sessions'[id] = sessions[id]]_vars

\* what holds: a session made in a second whose ID is not in the table is
\* added without replacing anything
C35_FreshWhenSecondUnused ==
    [][(nsessions' # nsessions /\ now \notin Stored) =>
          /\ Cardinality(Stored') = Cardinality(Stored) + 1
          /\ \A id \in Stored : sessions'[id] = sessions[id]]_vars

\* C36: with autoSaveN = N > 0, after every addMessage the number of
\* messages added since the last Save is less than N, whatever AddMessage,
\* Save, CreateSession and ResetAutoSaveCounter operations came before.
C36_UnsavedBelowN ==
    [][(sessMessages' # sessMessages /\ current' = current /\ nsessions' = nsessions
        /\ autoSaveN > 0) => addedSinceSave' < autoSaveN]_vars

\* what holds: after every addMessage the manager's own counter is below N
C36_CounterBelowN ==
    [][(sessMessages' # sessMessages /\ nsessions' = nsessions /\ autoSaveN > 0)
          => messageCount' < autoSaveN]_vars

====
